---- MODULE Spec2Model ----
(***************************************************************************)
(* The stable-fluids solver of code/smoke_solver.py (set_bnd, lin_solve,   *)
(* add_source, diffuse, advect, project, dens_step, vel_step) and the      *)
(* update() loop of code/smoke-2.py that drives it.                        *)
(*                                                                         *)
(* Arrays are (N+2) x (N+2) grids, functions from <<i, j>> to a number.    *)
(* numpy's floating-point numbers are modelled in fixed point: the integer *)
(* v stands for the number v / Q, products and quotients are rounded to    *)
(* the nearest multiple of 1 / Q.  Python names are references: the        *)
(* arrays live in mem under the names the driver gives them, and the       *)
(* parameters and locals of a running function (loc) hold such names, so   *)
(* that "x0, x = x, x0" swaps two references and moves no data.            *)
(***************************************************************************)
EXTENDS Integers, Sequences, FiniteSets, TLC

VARIABLES
    mem,    \* the arrays: array name -> grid
    mem0,   \* mem as it was when the running call was entered
    loc,    \* the running function's parameters and locals that name arrays
    par,    \* its scalar parameters (b, a, c, dt, diff, visc)
    pc,     \* the statement about to run
    k,      \* lin_solve's loop variable
    tmp,    \* advect's local arrays X, Y, I0, I1, S0, S1, J0, J1, T0, T1
    frame,  \* the number of update() calls that have returned
    log     \* the calls the running function has made so far, oldest first

vars == <<mem, mem0, loc, par, pc, k, tmp, frame, log>>

-----------------------------------------------------------------------------
(* Bounds of the model *)

\* the grid has N x N interior cells (the drivers set N = 128)
N == 2
\* fixed point: Q = 2^FracBits units make 1.0
FracBits == 3
\* input cells are drawn from -MaxVal..MaxVal units
MaxVal == 2
\* update() is called MaxFrames times (the animation calls it without end)
MaxFrames == 2

Q == 2 ^ FracBits
Half == Q \div 2
Last == N + 1
Idx == 0..Last
Cells == Idx \X Idx
Vals == (-MaxVal)..MaxVal

-----------------------------------------------------------------------------
(* Arithmetic *)

\* numpy evaluates an array expression to a new array before it is stored;
\* f @@ f is f, tabulated once instead of re-evaluated at every use
Eager(f) == f @@ f

\* n / d rounded to the nearest integer, halves upwards
RoundDiv(n, d) ==
    IF d > 0 THEN (2 * n + d) \div (2 * d)
    ELSE (2 * (-n) + (-d)) \div (2 * (-d))

\* the largest finite float, and the value that stands for inf, -inf and nan
MaxFloat == 2 ^ 20
NonFinite == 2 ^ 30

Finite(a) == a # NonFinite

\* a float result: one too large to be represented overflows
Fit(r) == IF r > MaxFloat \/ r < -MaxFloat THEN NonFinite ELSE r

\* -a, a + b, a * b and a / b of two fixed-point numbers (b a finite
\* divisor); inf and nan propagate, and 0 * inf is nan. Each operand is
\* bound in a one-element set, so that it is evaluated once.
Neg(a) == IF Finite(a) THEN -a ELSE NonFinite
Add(a, b) ==
    CHOOSE r \in { IF Finite(x) /\ Finite(y) THEN Fit(x + y) ELSE NonFinite :
                     x \in {a}, y \in {b} } : TRUE
Mul(a, b) ==
    CHOOSE r \in { IF Finite(x) /\ Finite(y) THEN Fit(RoundDiv(x * y, Q)) ELSE NonFinite :
                     x \in {a}, y \in {b} } : TRUE
Div(a, b) ==
    CHOOSE r \in { IF Finite(x) THEN Fit(RoundDiv(x * Q, b)) ELSE NonFinite :
                     x \in {a} } : TRUE

Min(a, b) == IF a < b THEN a ELSE b
Max(a, b) == IF a > b THEN a ELSE b

-----------------------------------------------------------------------------
(* set_bnd *)

\* x[0, 1:-1] = -x[1, 1:-1]; x[-1, 1:-1] = -x[N, 1:-1]   (b == 1)
\* x[0, 1:-1] =  x[1, 1:-1]; x[-1, 1:-1] =  x[N, 1:-1]   (otherwise)
BndRows(n, b, x) ==
    Eager([p \in Cells |->
        IF p[2] \in 1..(Last - 1) /\ p[1] = 0
        THEN (IF b = 1 THEN Neg(x[<<1, p[2]>>]) ELSE x[<<1, p[2]>>])
        ELSE IF p[2] \in 1..(Last - 1) /\ p[1] = Last
        THEN (IF b = 1 THEN Neg(x[<<n, p[2]>>]) ELSE x[<<n, p[2]>>])
        ELSE x[p]])

\* the walls at second-axis index 0 and N+1 copied whatever b is
BndColsNoSign(n, b, x) ==
    Eager([p \in Cells |->
        IF p[1] \in 1..(Last - 1) /\ p[2] = 0 THEN x[<<p[1], 1>>]
        ELSE IF p[1] \in 1..(Last - 1) /\ p[2] = Last THEN x[<<p[1], n>>]
        ELSE x[p]])

\* x[1:-1, 0] = -x[1:-1, 1]; x[1:-1, -1] = -x[1:-1, N]   (b == 2)
\* x[1:-1, 0] =  x[1:-1, 1]; x[1:-1, -1] =  x[1:-1, N]   (otherwise)
BndCols(n, b, x) ==
    Eager([p \in Cells |->
        IF p[1] \in 1..(Last - 1) /\ p[2] = 0
        THEN (IF b = 2 THEN Neg(x[<<p[1], 1>>]) ELSE x[<<p[1], 1>>])
        ELSE IF p[1] \in 1..(Last - 1) /\ p[2] = Last
        THEN (IF b = 2 THEN Neg(x[<<p[1], n>>]) ELSE x[<<p[1], n>>])
        ELSE x[p]])

\* each corner copied from the interior cell diagonal to it
BndCornersFromInterior(n, x) ==
    [x EXCEPT ![<<0, 0>>] = x[<<1, 1>>],
              ![<<0, Last>>] = x[<<1, n>>],
              ![<<Last, 0>>] = x[<<n, 1>>],
              ![<<Last, Last>>] = x[<<n, n>>]]

\* the four corner assignments, in the order of the code
BndCorners(n, x) ==
    LET c1 == [x  EXCEPT ![<<0, 0>>] = Mul(Half, Add(x[<<1, 0>>], x[<<0, 1>>]))]
        c2 == [c1 EXCEPT ![<<0, Last>>] = Mul(Half, Add(c1[<<1, Last>>], c1[<<0, n>>]))]
        c3 == [c2 EXCEPT ![<<Last, 0>>] = Mul(Half, Add(c2[<<n, 0>>], c2[<<Last, 1>>]))]
    IN  [c3 EXCEPT ![<<Last, Last>>] = Mul(Half, Add(c3[<<n, Last>>], c3[<<Last, n>>]))]

\* the corners averaged before the walls are rewritten
SetBndCornersFirst(n, b, x) ==
    CHOOSE r \in { BndCols(n, b, rows) :
                     rows \in { BndRows(n, b, corners) :
                                  corners \in {BndCorners(n, x)} } } : TRUE

\* the three groups of assignments of set_bnd, one after the other: rows is
\* the array after lines 26-31, cols after lines 32-37, the result after
\* lines 39-42 (each is bound in a one-element set, so that it is evaluated
\* once)
SetBnd(n, b, x) ==
    CHOOSE r \in { BndCorners(n, cols) :
                     cols \in { BndCols(n, b, rows) :
                                  rows \in {BndRows(n, b, x)} } } : TRUE

-----------------------------------------------------------------------------
(* Input grids *)

\* a * i + b * j + c at cell (i, j)
Ramp(a, b, c) == [p \in Cells |-> a * p[1] + b * p[2] + c]

\* a ramp with one cell, anywhere on the grid, overwritten
SampleGrids ==
    { [Ramp(a, b, c) EXCEPT ![p] = v] :
        a \in {-1, 0, 1}, b \in {-1, 0, 2}, c \in Vals, p \in Cells, v \in Vals }

Zero == [p \in Cells |-> 0]
NoCall == <<>>
NoLocals == <<>>

-----------------------------------------------------------------------------
(* set_bnd(N, b, x) called twice in a row on one array *)

InitBnd ==
    /\ mem \in { [x |-> g] : g \in SampleGrids }
    /\ mem0 = mem
    /\ loc = [x |-> "x"]
    /\ par \in { [b |-> b] : b \in {0, 1, 2} }
    /\ pc = "set_bnd"
    /\ k = 0
    /\ tmp = NoLocals
    /\ frame = 0
    /\ log = NoCall

CallSetBnd ==
    /\ pc = "set_bnd"
    /\ mem' = [mem EXCEPT ![loc.x] = SetBnd(N, par.b, mem[loc.x])]
    /\ pc' = "set_bnd_again"
    /\ UNCHANGED <<mem0, loc, par, k, tmp, frame, log>>

CallSetBndAgain ==
    /\ pc = "set_bnd_again"
    /\ mem' = [mem EXCEPT ![loc.x] = SetBnd(N, par.b, mem[loc.x])]
    /\ pc' = "set_bnd_twice"
    /\ UNCHANGED <<mem0, loc, par, k, tmp, frame, log>>

NextBnd == CallSetBnd \/ CallSetBndAgain

SpecBnd == InitBnd /\ [][NextBnd]_vars

-----------------------------------------------------------------------------
(* lin_solve, add_source, diffuse *)

\* for k in range(20)
Sweeps == 20

\* x[1:-1, 1:-1] = (x0[1:-1, 1:-1] + a * (x[:N, 1:-1] + x[2:, 1:-1] +
\*                                        x[1:-1, :N] + x[1:-1, 2:])) / c
\* the right-hand side is evaluated on the old x, then stored
LinSweep(n, x, x0, a, c) ==
    Eager([p \in Cells |->
        IF p[1] \in 1..(Last - 1) /\ p[2] \in 1..(Last - 1)
        THEN Div(Add(x0[p], Mul(a, Add(Add(Add(x[<<p[1] - 1, p[2]>>], x[<<p[1] + 1, p[2]>>]),
                                           x[<<p[1], p[2] - 1>>]), x[<<p[1], p[2] + 1>>]))), c)
        ELSE x[p]])

\* the loop goes on until the array stops changing
LinSolveMoreUntilConverged(kk) ==
    /\ kk < Sweeps
    /\ SetBnd(N, par.b, LinSweep(N, mem[loc.x], mem[loc.x0], par.a, par.c)) # mem[loc.x]

\* the loop test of "for k in range(20)"
LinSolveMore(kk) == kk < Sweeps

\* lin_solve from iteration kk on: next is x after one more pass of the
\* loop body (bound in a one-element set, so that it is evaluated first)
RECURSIVE LinSolveLoop(_, _, _, _, _, _, _)
LinSolveLoop(kk, n, b, x, x0, a, c) ==
    IF kk < Sweeps
    THEN CHOOSE r \in { LinSolveLoop(kk + 1, n, b, next, x0, a, c) :
                          next \in {SetBnd(n, b, LinSweep(n, x, x0, a, c))} } : TRUE
    ELSE x

\* the array x after lin_solve(N, b, x, x0, a, c)
LinSolve(n, b, x, x0, a, c) == LinSolveLoop(0, n, b, x, x0, a, c)

\* x += dt: the source left out
AddSourceConstant(n, x, s, dt) == Eager([p \in Cells |-> Add(x[p], dt)])

\* x += s: the time step left out
AddSourceNoDt(n, x, s, dt) == Eager([p \in Cells |-> Add(x[p], s[p])])

\* x += dt * s
AddSource(n, x, s, dt) == Eager([p \in Cells |-> Add(x[p], Mul(dt, s[p]))])

\* a = dt * N * N, the rate left out
DiffuseANoRate(n, diff, dt) == dt * n * n

\* a = dt * diff * N * N
DiffuseA(n, diff, dt) == Mul(dt, diff) * n * n

\* 1 + 4 * a
DiffuseC(a) == Q + 4 * a

\* the array x after diffuse(N, b, x, x0, diff, dt)
Diffuse(n, b, x, x0, diff, dt) ==
    LinSolve(n, b, x, x0, DiffuseA(n, diff, dt), DiffuseC(DiffuseA(n, diff, dt)))

\* a call, as the log records it
Call(op, b, args) == [op |-> op, b |-> b, args |-> args]

-----------------------------------------------------------------------------
(* diffuse(N, b, x, x0, diff, dt), statement by statement *)

\* a ramp, or the zero grid, with one cell overwritten by an ordinary value
\* or by inf or nan, or with two neighbours of a cell holding the largest
\* float
FewGrids ==
    { Ramp(a, 0, c) : a \in {0, 1}, c \in {0, MaxVal} }
    \cup { [Ramp(a, 0, c) EXCEPT ![p] = -MaxVal * Q] :
              a \in {0, 1}, c \in {0, MaxVal}, p \in {<<1, 1>>, <<0, N>>} }
    \cup { [Ramp(1, 0, MaxVal) EXCEPT ![p] = NonFinite] : p \in {<<1, 1>>, <<0, N>>} }
    \cup { [Ramp(1, 0, MaxVal) EXCEPT ![<<1, 1>>] = MaxFloat, ![<<2, 2>>] = MaxFloat] }

\* dt and the rates diff, visc: 0.5 and 1.0; 0.0 and 0.5
DtVals == {Half, Q}
RateVals == {0, Half}

InitLin ==
    /\ mem \in { [x |-> g, x0 |-> g0] : g \in FewGrids, g0 \in FewGrids }
    /\ mem0 = mem
    /\ loc = [x |-> "x", x0 |-> "x0"]
    /\ par \in { [b |-> b, diff |-> diff, dt |-> dt, a |-> 0, c |-> 0] :
                   b \in {0, 1, 2}, diff \in RateVals, dt \in DtVals }
    /\ pc = "diffuse"
    /\ k = 0
    /\ tmp = NoLocals
    /\ frame = 0
    /\ log = NoCall

\* a = dt * diff * N * N; lin_solve(N, b, x, x0, a, 1 + 4 * a)
DiffuseCall ==
    /\ pc = "diffuse"
    /\ par' = [par EXCEPT !.a = DiffuseA(N, par.diff, par.dt),
                          !.c = DiffuseC(DiffuseA(N, par.diff, par.dt))]
    /\ k' = 0
    /\ pc' = "lin_solve"
    /\ log' = Append(log, Call("lin_solve", par.b, <<loc.x, loc.x0>>))
    /\ UNCHANGED <<mem, mem0, loc, tmp, frame>>

\* one more iteration: the assignment to x[1:-1, 1:-1]
LinSolveSweep ==
    /\ pc = "lin_solve"
    /\ LinSolveMore(k)
    /\ mem' = [mem EXCEPT ![loc.x] = LinSweep(N, mem[loc.x], mem[loc.x0], par.a, par.c)]
    /\ pc' = "lin_solve_bnd"
    /\ log' = Append(log, Call("sweep", par.b, <<loc.x, loc.x0>>))
    /\ UNCHANGED <<mem0, loc, par, k, tmp, frame>>

\* set_bnd(N, b, x), the end of the loop body
LinSolveBnd ==
    /\ pc = "lin_solve_bnd"
    /\ mem' = [mem EXCEPT ![loc.x] = SetBnd(N, par.b, mem[loc.x])]
    /\ k' = k + 1
    /\ pc' = "lin_solve"
    /\ log' = Append(log, Call("set_bnd", par.b, <<loc.x>>))
    /\ UNCHANGED <<mem0, loc, par, tmp, frame>>

\* the loop is over: lin_solve and diffuse return
LinSolveReturn ==
    /\ pc = "lin_solve"
    /\ ~LinSolveMore(k)
    /\ pc' = "diffuse_done"
    /\ UNCHANGED <<mem, mem0, loc, par, k, tmp, frame, log>>

NextLin == DiffuseCall \/ LinSolveSweep \/ LinSolveBnd \/ LinSolveReturn

SpecLin == InitLin /\ [][NextLin]_vars

\* the interpreter runs the next statement: the call is never suspended
SpecLinFair == SpecLin /\ WF_vars(NextLin)

-----------------------------------------------------------------------------
(* advect *)

\* the interior cells: I, J = np.indices((N, N)); I += 1; J += 1
Interior(n) == (1..n) \X (1..n)

\* the interior cell number i (0 .. N * N - 1) in the order of
\* "for i in 1..N: for j in 1..N"
RowMajor(n, i) == <<1 + (i \div n), 1 + (i % n)>>

\* X.astype(int): the fraction is dropped
AsInt(X) == IF X >= 0 THEN X \div Q ELSE -((-X) \div Q)

\* X = I - dt0 * u[I, J] at one cell, dt0 = dt * N: i is the cell's index
\* and w the (finite) velocity there
BackTrace(n, i, w, dt) == i * Q - Mul(dt * n, w)

\* only the lower clamp
ClampLowOnly(n, X) == Max(X, Half)

\* np.minimum(np.maximum(X, 0.5), N + 0.5)
Clamp(n, X) == Min(Max(X, Half), n * Q + Half)

\* S0 = X - I0: the weight of the far cell given to the near one
Weight0AsWeight1(X) == X - AsInt(X) * Q

\* S1 = X - I1: the distance measured from the far cell
Weight1FromFarCell(X) == X - (AsInt(X) + 1) * Q

\* lines 90-93 (and 96-99) for one clamped coordinate X
\* I0 = X.astype(int); I1 = I0 + 1; S1 = X - I0; S0 = 1 - S1
Index0(X) == AsInt(X)
Index1(X) == Index0(X) + 1
Weight1(X) == X - Index0(X) * Q
Weight0(X) == Q - Weight1(X)

\* the right-hand side of lines 101-102 at one cell
Interpolate(d0, i0, i1, s0, s1, j0, j1, t0, t1) ==
    Add(Mul(s0, Add(Mul(t0, d0[<<i0, j0>>]), Mul(t1, d0[<<i0, j1>>]))),
        Mul(s1, Add(Mul(t0, d0[<<i1, j0>>]), Mul(t1, d0[<<i1, j1>>]))))

\* the array d after lines 81-102 of advect(N, b, d, d0, u, v, dt)
AdvectInterior(n, d, d0, u, v, dt) ==
    Eager([p \in Cells |->
        IF p \in Interior(n)
        THEN LET X == Clamp(n, BackTrace(n, p[1], u[p], dt))
                 Y == Clamp(n, BackTrace(n, p[2], v[p], dt))
             IN  Interpolate(d0, Index0(X), Index1(X), Weight0(X), Weight1(X),
                                 Index0(Y), Index1(Y), Weight0(Y), Weight1(Y))
        ELSE d[p]])

\* advect without its last statement
AdvectNoBnd(n, b, d, d0, u, v, dt) == AdvectInterior(n, d, d0, u, v, dt)

\* the array d after advect(N, b, d, d0, u, v, dt)
Advect(n, b, d, d0, u, v, dt) == SetBnd(n, b, AdvectInterior(n, d, d0, u, v, dt))

-----------------------------------------------------------------------------
(* advect(N, b, d, d0, u, v, dt), statement by statement *)

\* a finite velocity that traces a cell thousands of cells out of the grid
Huge == 1000 * MaxVal * Q

\* velocity fields: at rest, slow (a fraction of a cell per step), and with
\* one cell thrown far out of the grid in either direction
VelGrids ==
    { Ramp(a, 0, c) : a \in {0, 1}, c \in {0, -MaxVal} }
    \cup { [Ramp(0, 0, c) EXCEPT ![p] = w] :
              c \in {0, MaxVal}, p \in {<<1, 1>>, <<N, N>>}, w \in {Huge, -Huge} }

\* the fields advect samples: those handed to diffuse, and one with inf or
\* nan in the last interior cell
SampledGrids == FewGrids \cup { [Ramp(1, 0, MaxVal) EXCEPT ![<<N, N>>] = NonFinite] }

\* the arrays a caller passes as d, d0, u, v: four arrays, or one array as
\* both d and d0
AdvectCalls ==
    { [d |-> "d", d0 |-> "d0", u |-> "u", v |-> "v"],
      [d |-> "d", d0 |-> "d", u |-> "u", v |-> "v"] }

InitAdv ==
    /\ mem \in { [d |-> g, d0 |-> g0, u |-> gu, v |-> gv] :
                   g \in {Zero, Ramp(1, 1, 1)}, g0 \in SampledGrids,
                   gu \in VelGrids, gv \in VelGrids }
    /\ mem0 = mem
    /\ loc \in AdvectCalls
    /\ par \in { [b |-> b, dt |-> dt] : b \in {0, 1, 2}, dt \in DtVals }
    /\ pc = "advect"
    /\ k = 0
    /\ tmp = NoLocals
    /\ frame = 0
    /\ log = NoCall

\* lines 81-87: X = I - dt0 * u[I, J]; Y = J - dt0 * v[I, J]
AdvectTrace ==
    /\ pc = "advect"
    /\ tmp' = [X |-> [p \in Interior(N) |-> BackTrace(N, p[1], mem[loc.u][p], par.dt)],
               Y |-> [p \in Interior(N) |-> BackTrace(N, p[2], mem[loc.v][p], par.dt)]]
    /\ pc' = "advect_x"
    /\ UNCHANGED <<mem, mem0, loc, par, k, frame, log>>

\* lines 89-93: X is clamped; I0, I1, S1, S0
AdvectX ==
    /\ pc = "advect_x"
    /\ LET X == [p \in Interior(N) |-> Clamp(N, tmp.X[p])]
       IN  tmp' = [X |-> X, Y |-> tmp.Y,
                   I0 |-> [p \in Interior(N) |-> Index0(X[p])],
                   I1 |-> [p \in Interior(N) |-> Index1(X[p])],
                   S1 |-> [p \in Interior(N) |-> Weight1(X[p])],
                   S0 |-> [p \in Interior(N) |-> Weight0(X[p])]]
    /\ pc' = "advect_y"
    /\ UNCHANGED <<mem, mem0, loc, par, k, frame, log>>

\* lines 95-99: Y is clamped; J0, J1, T1, T0
AdvectY ==
    /\ pc = "advect_y"
    /\ LET Y == [p \in Interior(N) |-> Clamp(N, tmp.Y[p])]
       IN  tmp' = [X |-> tmp.X, Y |-> Y,
                   I0 |-> tmp.I0, I1 |-> tmp.I1, S1 |-> tmp.S1, S0 |-> tmp.S0,
                   J0 |-> [p \in Interior(N) |-> Index0(Y[p])],
                   J1 |-> [p \in Interior(N) |-> Index1(Y[p])],
                   T1 |-> [p \in Interior(N) |-> Weight1(Y[p])],
                   T0 |-> [p \in Interior(N) |-> Weight0(Y[p])]]
    /\ pc' = "advect_store"
    /\ UNCHANGED <<mem, mem0, loc, par, k, frame, log>>

\* the cells of d written one after the other, each interpolated from the
\* array d0 names at that moment
RECURSIVE AdvectStoredFrom(_, _, _, _)
AdvectStoredFrom(i, m, l, t) ==
    IF i = N * N THEN m[l.d]
    ELSE LET p == RowMajor(N, i)
             new == Interpolate(m[l.d0], t.I0[p], t.I1[p], t.S0[p], t.S1[p],
                                         t.J0[p], t.J1[p], t.T0[p], t.T1[p])
         IN  AdvectStoredFrom(i + 1, [m EXCEPT ![l.d][p] = new], l, t)

AdvectStoredCellByCell(m, l, t) == AdvectStoredFrom(0, m, l, t)

\* the array d after lines 101-102: the right-hand side is evaluated on the
\* arrays as they are (indexing with I0, J0, ... copies), then stored
AdvectStored(m, l, t) ==
    Eager([p \in Cells |->
        IF p \in Interior(N)
        THEN Interpolate(m[l.d0], t.I0[p], t.I1[p], t.S0[p], t.S1[p],
                                  t.J0[p], t.J1[p], t.T0[p], t.T1[p])
        ELSE m[l.d][p]])

\* lines 101-102: d[I, J] = the interpolation of d0
AdvectStore ==
    /\ pc = "advect_store"
    /\ mem' = [mem EXCEPT ![loc.d] = AdvectStored(mem, loc, tmp)]
    /\ pc' = "advect_bnd"
    /\ UNCHANGED <<mem0, loc, par, k, tmp, frame, log>>

\* line 104: set_bnd(N, b, d), and the return
AdvectBnd ==
    /\ pc = "advect_bnd"
    /\ mem' = [mem EXCEPT ![loc.d] = SetBnd(N, par.b, mem[loc.d])]
    /\ pc' = "advect_done"
    /\ UNCHANGED <<mem0, loc, par, k, tmp, frame, log>>

NextAdv == AdvectTrace \/ AdvectX \/ AdvectY \/ AdvectStore \/ AdvectBnd

SpecAdv == InitAdv /\ [][NextAdv]_vars

-----------------------------------------------------------------------------
(* project *)

\* h = 1.0 / N
GridStep(n) == Div(Q, n * Q)

\* div[1:-1, 1:-1] = -0.5 * h * (u[2:, 1:-1] - u[0:N, 1:-1] +
\*                               v[1:-1, 2:] - v[1:-1, 0:N])
ProjectDiv(n, u, v, div) ==
    Eager([q \in Cells |->
        IF q[1] \in 1..(Last - 1) /\ q[2] \in 1..(Last - 1)
        THEN Mul(Mul(-Half, GridStep(n)),
                 u[<<q[1] + 1, q[2]>>] - u[<<q[1] - 1, q[2]>>]
                 + v[<<q[1], q[2] + 1>>] - v[<<q[1], q[2] - 1>>])
        ELSE div[q]])

\* p left as it was
ProjectNotZeroed(p) == p

\* p[1:-1, 1:-1] = 0
ProjectZero(p) ==
    Eager([q \in Cells |->
        IF q[1] \in 1..(Last - 1) /\ q[2] \in 1..(Last - 1) THEN 0 ELSE p[q]])

\* u[1:-1, 1:-1] -= 0.5 * (p[2:, 1:-1] - p[0:N, 1:-1]) / h
ProjectSubU(n, u, p) ==
    Eager([q \in Cells |->
        IF q[1] \in 1..(Last - 1) /\ q[2] \in 1..(Last - 1)
        THEN u[q] - Div(Mul(Half, p[<<q[1] + 1, q[2]>>] - p[<<q[1] - 1, q[2]>>]), GridStep(n))
        ELSE u[q]])

\* v[1:-1, 1:-1] -= 0.5 * (p[1:-1, 2:] - p[1:-1, 0:N]) / h
ProjectSubV(n, v, p) ==
    Eager([q \in Cells |->
        IF q[1] \in 1..(Last - 1) /\ q[2] \in 1..(Last - 1)
        THEN v[q] - Div(Mul(Half, p[<<q[1], q[2] + 1>>] - p[<<q[1], q[2] - 1>>]), GridStep(n))
        ELSE v[q]])

\* project without its last two statements
ProjectStaleWalls(n, u, v, p, div) ==
    LET div1 == SetBnd(n, 0, ProjectDiv(n, u, v, div))
        p1 == SetBnd(n, 0, ProjectZero(p))
        p2 == LinSolve(n, 0, p1, div1, Q, 4 * Q)
    IN  [u |-> ProjectSubU(n, u, p2),
         v |-> ProjectSubV(n, v, p2),
         p |-> p2,
         div |-> div1]

\* the four arrays after project(N, u, v, p, div)
Project(n, u, v, p, div) ==
    LET div1 == SetBnd(n, 0, ProjectDiv(n, u, v, div))
        p1 == SetBnd(n, 0, ProjectZero(p))
        p2 == LinSolve(n, 0, p1, div1, Q, 4 * Q)
    IN  [u |-> SetBnd(n, 1, ProjectSubU(n, u, p2)),
         v |-> SetBnd(n, 2, ProjectSubV(n, v, p2)),
         p |-> p2,
         div |-> div1]

-----------------------------------------------------------------------------
(* update(): vel_step, then dens_step, statement by statement *)

\* "x0 = x; x = x0": both names end up on the array x named
SwapRefsOneByOne(l, a, b) == [l EXCEPT ![b] = l[a]]

\* "b, a = a, b" on the references held by the locals a and b
SwapRefs(l, a, b) == [l EXCEPT ![a] = l[b], ![b] = l[a]]

\* advect(N, 1, u0, u0, u0, v0, dt): u0 advected along itself in place
VelAdvectUArgsInPlace(l) == [d |-> l.u0, d0 |-> l.u0, u |-> l.u0, v |-> l.v0]

\* advect(N, 2, v, v0, u, v, dt): v carried along the arrays being written
VelAdvectVArgsCurrent(l) == [d |-> l.v, d0 |-> l.v0, u |-> l.u, v |-> l.v]

\* the array arguments d, d0, u, v of the advect calls of lines 148, 149, 130
VelAdvectUArgs(l) == [d |-> l.u, d0 |-> l.u0, u |-> l.u0, v |-> l.v0]
VelAdvectVArgs(l) == [d |-> l.v, d0 |-> l.v0, u |-> l.u0, v |-> l.v0]

\* advect writing into the array it samples from
DensAdvectArgsInto0(l) == [d |-> l.x0, d0 |-> l.x, u |-> l.u, v |-> l.v]

\* line 130: advect(N, 0, x, x0, u, v, dt)
DensAdvectArgs(l) == [d |-> l.x, d0 |-> l.x0, u |-> l.u, v |-> l.v]

\* the sources and the fields the driver starts from
SourceGrids == { Zero, [Zero EXCEPT ![<<1, 1>>] = MaxVal * Q] }
SlowVelGrids == { Ramp(1, 0, -MaxVal), [Zero EXCEPT ![<<N, 1>>] = MaxVal * Q] }
DensGrids == { Ramp(1, 1, 1), [Zero EXCEPT ![<<1, N>>] = MaxVal * Q] }

\* the viscosities tried: none, as in the driver, and the smallest one
ViscVals == {0, 1}

\* the six arrays as np.zeros allocates them (lines 14-21)
ZeroArrays ==
    [u |-> Zero, v |-> Zero, u_prev |-> Zero, v_prev |-> Zero,
     dens |-> Zero, dens_prev |-> Zero]

\* a fluid at rest whose density and density source hold the largest float
\* at one cell: finite values whose sum overflows in add_source
OverflowingArrays ==
    [ZeroArrays EXCEPT !.dens = [Zero EXCEPT ![<<1, 1>>] = MaxFloat],
                       !.dens_prev = [Zero EXCEPT ![<<1, 1>>] = MaxFloat]]

\* the cell in the middle of the grid, (8, 8) when N is 16
Centre == <<Max(1, N \div 2), Max(1, N \div 2)>>

\* the largest density value, written as a source at the middle cell
Injected == MaxVal * Q

\* a fluid at rest with no density and one source cell in dens_prev
ScenarioArrays == [ZeroArrays EXCEPT !.dens_prev = [Zero EXCEPT ![Centre] = Injected]]

Init ==
    /\ mem \in { [u |-> gu, v |-> gv, u_prev |-> gf, v_prev |-> gf,
                  dens |-> gd, dens_prev |-> gd0] :
                   gu \in SlowVelGrids, gv \in SlowVelGrids, gf \in SourceGrids,
                   gd \in DensGrids, gd0 \in SourceGrids }
               \cup {ZeroArrays, OverflowingArrays, ScenarioArrays}
    /\ mem0 = mem
    /\ loc = NoLocals
    /\ par \in { [visc |-> visc, diff |-> diff, dt |-> dt] :
                   visc \in ViscVals, diff \in RateVals, dt \in DtVals }
    /\ pc = "update"
    /\ k = 0
    /\ tmp = NoLocals
    /\ frame = 0
    /\ log = NoCall

\* the effect of one statement of vel_step or dens_step that calls a solver
\* stage: the arrays become m, the call c is logged, control moves to next
Stage(m, c, next) ==
    /\ mem' = m
    /\ log' = Append(log, c)
    /\ pc' = next
    /\ UNCHANGED <<mem0, loc, par, k, tmp, frame>>

\* one swap statement on the locals a and b
Swap(a, b, next) ==
    /\ loc' = SwapRefs(loc, a, b)
    /\ pc' = next
    /\ UNCHANGED <<mem, mem0, par, k, tmp, frame, log>>

\* update: vel_step(N, u, v, u_prev, v_prev, visc, dt)
UpdateVelStep ==
    /\ pc = "update"
    /\ frame < MaxFrames
    /\ loc' = [u |-> "u", v |-> "v", u0 |-> "u_prev", v0 |-> "v_prev"]
    /\ mem0' = mem
    /\ log' = NoCall
    /\ pc' = "vel_add_u"
    /\ UNCHANGED <<mem, par, k, tmp, frame>>

\* line 136: add_source(N, u, u0, dt)
VelAddSourceU ==
    /\ pc = "vel_add_u"
    /\ Stage([mem EXCEPT ![loc.u] = AddSource(N, mem[loc.u], mem[loc.u0], par.dt)],
             Call("add_source", -1, <<loc.u, loc.u0>>), "vel_add_v")

\* line 137: add_source(N, v, v0, dt)
VelAddSourceV ==
    /\ pc = "vel_add_v"
    /\ Stage([mem EXCEPT ![loc.v] = AddSource(N, mem[loc.v], mem[loc.v0], par.dt)],
             Call("add_source", -1, <<loc.v, loc.v0>>), "vel_swap_u")

\* line 138: u0, u = u, u0
VelSwapU == pc = "vel_swap_u" /\ Swap("u", "u0", "vel_diffuse_u")

\* line 140: diffuse(N, 1, u, u0, visc, dt)
VelDiffuseU ==
    /\ pc = "vel_diffuse_u"
    /\ Stage([mem EXCEPT ![loc.u] = Diffuse(N, 1, mem[loc.u], mem[loc.u0], par.visc, par.dt)],
             Call("diffuse", 1, <<loc.u, loc.u0>>), "vel_swap_v")

\* line 141: v0, v = v, v0
VelSwapV == pc = "vel_swap_v" /\ Swap("v", "v0", "vel_diffuse_v")

\* line 143: diffuse(N, 2, v, v0, visc, dt)
VelDiffuseV ==
    /\ pc = "vel_diffuse_v"
    /\ Stage([mem EXCEPT ![loc.v] = Diffuse(N, 2, mem[loc.v], mem[loc.v0], par.visc, par.dt)],
             Call("diffuse", 2, <<loc.v, loc.v0>>), "vel_project")

\* line 144: project(N, u, v, u0, v0)
VelProject ==
    /\ pc = "vel_project"
    /\ LET r == Project(N, mem[loc.u], mem[loc.v], mem[loc.u0], mem[loc.v0])
       IN  Stage([mem EXCEPT ![loc.u] = r.u, ![loc.v] = r.v, ![loc.u0] = r.p, ![loc.v0] = r.div],
                 Call("project", -1, <<loc.u, loc.v, loc.u0, loc.v0>>), "vel_swap_back_u")

\* line 145: u0, u = u, u0
VelSwapBackU == pc = "vel_swap_back_u" /\ Swap("u", "u0", "vel_swap_back_v")

\* line 146: v0, v = v, v0
VelSwapBackV == pc = "vel_swap_back_v" /\ Swap("v", "v0", "vel_advect_u")

\* line 148: advect(N, 1, u, u0, u0, v0, dt)
VelAdvectU ==
    /\ pc = "vel_advect_u"
    /\ LET a == VelAdvectUArgs(loc)
       IN  Stage([mem EXCEPT ![a.d] = Advect(N, 1, mem[a.d], mem[a.d0], mem[a.u], mem[a.v], par.dt)],
                 Call("advect", 1, <<a.d, a.d0, a.u, a.v>>), "vel_advect_v")

\* line 149: advect(N, 2, v, v0, u0, v0, dt)
VelAdvectV ==
    /\ pc = "vel_advect_v"
    /\ LET a == VelAdvectVArgs(loc)
       IN  Stage([mem EXCEPT ![a.d] = Advect(N, 2, mem[a.d], mem[a.d0], mem[a.u], mem[a.v], par.dt)],
                 Call("advect", 2, <<a.d, a.d0, a.u, a.v>>), "vel_project_again")

\* line 150: project(N, u, v, u0, v0)
VelProjectAgain ==
    /\ pc = "vel_project_again"
    /\ LET r == Project(N, mem[loc.u], mem[loc.v], mem[loc.u0], mem[loc.v0])
       IN  Stage([mem EXCEPT ![loc.u] = r.u, ![loc.v] = r.v, ![loc.u0] = r.p, ![loc.v0] = r.div],
                 Call("project", -1, <<loc.u, loc.v, loc.u0, loc.v0>>), "vel_return")

\* vel_step returns; update: dens_step(N, dens, dens_prev, u, v, diff, dt)
UpdateDensStep ==
    /\ pc = "vel_return"
    /\ loc' = [x |-> "dens", x0 |-> "dens_prev", u |-> "u", v |-> "v"]
    /\ mem0' = mem
    /\ log' = NoCall
    /\ pc' = "dens_add"
    /\ UNCHANGED <<mem, par, k, tmp, frame>>

\* line 126: add_source(N, x, x0, dt)
DensAddSource ==
    /\ pc = "dens_add"
    /\ Stage([mem EXCEPT ![loc.x] = AddSource(N, mem[loc.x], mem[loc.x0], par.dt)],
             Call("add_source", -1, <<loc.x, loc.x0>>), "dens_swap")

\* line 127: x0, x = x, x0
DensSwap == pc = "dens_swap" /\ Swap("x", "x0", "dens_diffuse")

\* line 128: diffuse(N, 0, x, x0, diff, dt)
DensDiffuse ==
    /\ pc = "dens_diffuse"
    /\ Stage([mem EXCEPT ![loc.x] = Diffuse(N, 0, mem[loc.x], mem[loc.x0], par.diff, par.dt)],
             Call("diffuse", 0, <<loc.x, loc.x0>>), "dens_swap_back")

\* line 129: x0, x = x, x0
DensSwapBack == pc = "dens_swap_back" /\ Swap("x", "x0", "dens_advect")

\* line 130: advect(N, 0, x, x0, u, v, dt)
DensAdvect ==
    /\ pc = "dens_advect"
    /\ LET a == DensAdvectArgs(loc)
       IN  Stage([mem EXCEPT ![a.d] = Advect(N, 0, mem[a.d], mem[a.d0], mem[a.u], mem[a.v], par.dt)],
                 Call("advect", 0, <<a.d, a.d0, a.u, a.v>>), "dens_return")

\* dens_step returns, and update with it
UpdateReturn ==
    /\ pc = "dens_return"
    /\ loc' = NoLocals
    /\ frame' = frame + 1
    /\ pc' = "update"
    /\ UNCHANGED <<mem, mem0, par, k, tmp, log>>

Next ==
    \/ UpdateVelStep \/ VelAddSourceU \/ VelAddSourceV \/ VelSwapU \/ VelDiffuseU
    \/ VelSwapV \/ VelDiffuseV \/ VelProject \/ VelSwapBackU \/ VelSwapBackV
    \/ VelAdvectU \/ VelAdvectV \/ VelProjectAgain
    \/ UpdateDensStep \/ DensAddSource \/ DensSwap \/ DensDiffuse \/ DensSwapBack
    \/ DensAdvect \/ UpdateReturn

Spec == Init /\ [][Next]_vars

\* diffuse and advect called on their own, and the calls update() makes
InitCalls == InitLin \/ InitAdv \/ Init
NextCalls == NextLin \/ NextAdv \/ Next
SpecCalls == InitCalls /\ [][NextCalls]_vars

-----------------------------------------------------------------------------
(* Properties of set_bnd *)

\* the array set_bnd was called on, now and before the first call
BndNow == mem[loc.x]
BndBefore == mem0[loc.x]

\* C4: set_bnd is idempotent: for every grid and every kind b in {0, 1, 2},
\* the grid after two calls of set_bnd is the grid after one call.
C4_SetBndIdempotent ==
    pc = "set_bnd_twice" => BndNow = SetBnd(N, par.b, BndBefore)

\* two calls were made on a grid whose walls and corners the first call
\* changed
C4_Witness ==
    /\ pc = "set_bnd_twice"
    /\ BndNow[<<0, 1>>] # BndBefore[<<0, 1>>]
    /\ BndNow[<<1, 0>>] # BndBefore[<<1, 0>>]
    /\ BndNow[<<0, 0>>] # BndBefore[<<0, 0>>]
    /\ BndNow[<<0, 0>>] # 0

\* C5: after set_bnd, for kind 1 the walls at first-axis index 0 and N+1
\* hold the negated adjacent interior value and the walls at second-axis
\* index 0 and N+1 a copy of it; kind 2 is the mirror image; kind 0 copies
\* the adjacent interior value on all four walls.
C5_EdgeRule ==
    pc \in {"set_bnd_again", "set_bnd_twice"} =>
        /\ \A j \in 1..N :
             /\ BndNow[<<0, j>>] = (IF par.b = 1 THEN -1 ELSE 1) * BndNow[<<1, j>>]
             /\ BndNow[<<N + 1, j>>] = (IF par.b = 1 THEN -1 ELSE 1) * BndNow[<<N, j>>]
        /\ \A i \in 1..N :
             /\ BndNow[<<i, 0>>] = (IF par.b = 2 THEN -1 ELSE 1) * BndNow[<<i, 1>>]
             /\ BndNow[<<i, N + 1>>] = (IF par.b = 2 THEN -1 ELSE 1) * BndNow[<<i, N>>]

\* set_bnd of kind 2 has run on a grid whose wall cell (1, 0) did not hold
\* the negated neighbour before
C5_Witness ==
    /\ pc = "set_bnd_again"
    /\ par.b = 2
    /\ BndNow[<<1, 1>>] # 0
    /\ BndBefore[<<1, 0>>] # -BndBefore[<<1, 1>>]
    /\ BndNow[<<1, 0>>] = -BndNow[<<1, 1>>]

\* c is 0.5 * (a + b), rounded to the fixed-point grid
IsAverage(c, a, b) == 2 * c - (a + b) \in {0, 1}

\* C6: after set_bnd, for every kind, each corner cell is the average of the
\* two wall cells next to it, as they stand after the same call.
C6_CornerAverage ==
    pc \in {"set_bnd_again", "set_bnd_twice"} =>
        /\ IsAverage(BndNow[<<0, 0>>], BndNow[<<1, 0>>], BndNow[<<0, 1>>])
        /\ IsAverage(BndNow[<<0, N + 1>>], BndNow[<<1, N + 1>>], BndNow[<<0, N>>])
        /\ IsAverage(BndNow[<<N + 1, 0>>], BndNow[<<N, 0>>], BndNow[<<N + 1, 1>>])
        /\ IsAverage(BndNow[<<N + 1, N + 1>>], BndNow[<<N, N + 1>>], BndNow[<<N + 1, N>>])

\* set_bnd has rewritten a corner whose two neighbouring wall cells differ
\* and were themselves rewritten by the call
C6_Witness ==
    /\ pc = "set_bnd_again"
    /\ BndNow[<<0, 0>>] # BndBefore[<<0, 0>>]
    /\ BndNow[<<1, 0>>] # BndNow[<<0, 1>>]
    /\ BndNow[<<1, 0>>] # BndBefore[<<1, 0>>]
    /\ BndNow[<<0, 1>>] # BndBefore[<<0, 1>>]
    /\ BndNow[<<0, 0>>] # BndNow[<<1, 1>>]

-----------------------------------------------------------------------------
(* Properties of lin_solve and diffuse *)

\* one relaxation sweep done in place, cell after cell in row-major order:
\* a cell reads the new value of every neighbour recomputed before it
RECURSIVE GaussSeidelFrom(_, _, _, _, _, _)
GaussSeidelFrom(i, n, x, x0, a, c) ==
    IF i = n * n THEN x
    ELSE LET p == RowMajor(n, i)
             new == Div(Add(x0[p], Mul(a, Add(Add(Add(x[<<p[1] - 1, p[2]>>], x[<<p[1] + 1, p[2]>>]),
                                                x[<<p[1], p[2] - 1>>]), x[<<p[1], p[2] + 1>>]))), c)
         IN  GaussSeidelFrom(i + 1, n, [x EXCEPT ![p] = new], x0, a, c)

GaussSeidelSweep(n, x, x0, a, c) == GaussSeidelFrom(0, n, x, x0, a, c)

\* C7: each lin_solve sweep is an in-place Gauss-Seidel sweep: a recomputed
\* cell uses the values its neighbours got earlier in the same sweep, not
\* the values they had at the end of the previous sweep.
C7_GaussSeidel ==
    [][(pc = "lin_solve" /\ pc' = "lin_solve_bnd") =>
          mem'[loc.x] = GaussSeidelSweep(N, mem[loc.x], mem[loc.x0], par.a, par.c)]_vars

\* the log of one lin_solve call that ran all its iterations
FullLinSolveLog ==
    [i \in 1..(2 * Sweeps + 1) |->
        IF i = 1 THEN Call("lin_solve", par.b, <<loc.x, loc.x0>>)
        ELSE IF i % 2 = 0 THEN Call("sweep", par.b, <<loc.x, loc.x0>>)
        ELSE Call("set_bnd", par.b, <<loc.x>>)]

\* C8: lin_solve ends after exactly 20 sweeps, each one followed at once by
\* one set_bnd of the caller's kind, whatever the arrays hold: the loop
\* never stops early and never runs on.
C8_TwentySweeps ==
    /\ [](k <= Sweeps)
    /\ [](pc = "diffuse_done" => k = Sweeps /\ log = FullLinSolveLog)
    /\ <>(pc = "diffuse_done")

\* lin_solve has returned from a call whose array x was a non-zero fixed
\* point of the sweep from the start: a convergence test would have
\* stopped at once
C8_Witness ==
    /\ pc = "diffuse_done"
    /\ mem0[loc.x] # Zero
    /\ SetBnd(N, par.b, LinSweep(N, mem0[loc.x], mem0[loc.x0], par.a, par.c)) = mem0[loc.x]

\* C9 as stated: diffuse with rate 0 is the identity: a = 0, c = 1, and
\* whatever x0 holds and whatever x held before, every interior cell of x
\* holds the value of x0 afterwards.
C9_DiffuseZeroRateAnyContents ==
    (pc = "diffuse_done" /\ par.diff = 0) =>
        /\ par.a = 0
        /\ par.c = Q
        /\ \A i, j \in 1..N : mem[loc.x][<<i, j>>] = mem0[loc.x0][<<i, j>>]

\* every value of the array g is finite and at most a quarter of the largest
\* float in magnitude: no sum of four of them overflows
Summable(g) ==
    \A p \in Cells : Finite(g[p]) /\ 4 * g[p] <= MaxFloat /\ 4 * g[p] >= -MaxFloat

\* C9: diffuse with rate 0 is the identity on arrays whose values are finite
\* and small enough that the sum of four of them does not overflow: a = 0,
\* c = 1, and every interior cell of x holds the value of x0 afterwards,
\* whatever such values x held before.
C9_DiffuseZeroRate ==
    (pc = "diffuse_done" /\ par.diff = 0 /\ Summable(mem0[loc.x]) /\ Summable(mem0[loc.x0])) =>
        /\ par.a = 0
        /\ par.c = Q
        /\ \A i, j \in 1..N : mem[loc.x][<<i, j>>] = mem0[loc.x0][<<i, j>>]

\* diffuse with rate 0 has returned, and x held finite values other than
\* those of x0 in the interior before
C9_Witness ==
    /\ pc = "diffuse_done"
    /\ par.diff = 0
    /\ Summable(mem0[loc.x]) /\ Summable(mem0[loc.x0])
    /\ mem0[loc.x][<<1, 1>>] # mem0[loc.x0][<<1, 1>>]
    /\ mem0[loc.x][<<N, N>>] # mem0[loc.x0][<<N, N>>]
    /\ mem0[loc.x0][<<1, 1>>] # 0
    /\ mem[loc.x][<<1, 1>>] = mem0[loc.x0][<<1, 1>>]

-----------------------------------------------------------------------------
(* Properties of advect *)

\* a clamped coordinate X with its index pair and weights, as lines 89-93
\* (95-99) leave them: the position is in [0.5, N + 0.5], the two indices
\* are neighbours inside 0..N+1, the weights are in [0, 1]
InGrid(X, i0, i1, s0, s1) ==
    /\ Half <= X /\ X <= N * Q + Half
    /\ 0 <= i0 /\ i0 <= N
    /\ i1 = i0 + 1 /\ i1 <= N + 1
    /\ 0 <= s0 /\ s0 <= Q
    /\ 0 <= s1 /\ s1 <= Q

\* C10: advect never reads outside the grid: for every interior cell and
\* every velocity, however large, the clamped position is in [0.5, N + 0.5],
\* 0 <= I0 <= N, I1 = I0 + 1 <= N + 1, 0 <= J0 <= N, J1 = J0 + 1 <= N + 1,
\* and the weights S0, S1, T0, T1 are in [0, 1].
C10_AdvectInGrid ==
    /\ pc \in {"advect_y", "advect_store", "advect_bnd", "advect_done"} =>
         \A p \in Interior(N) :
            InGrid(tmp.X[p], tmp.I0[p], tmp.I1[p], tmp.S0[p], tmp.S1[p])
    /\ pc \in {"advect_store", "advect_bnd", "advect_done"} =>
         \A p \in Interior(N) :
            InGrid(tmp.Y[p], tmp.J0[p], tmp.J1[p], tmp.T0[p], tmp.T1[p])

\* advect is about to read d0 where one cell was traced back beyond the
\* last ghost cell along the first axis, another one below index 0 along
\* the second axis, and a third one to a position between two cell centres
C10_Witness ==
    /\ pc = "advect_store"
    /\ \E p \in Interior(N) :
          /\ BackTrace(N, p[1], mem[loc.u][p], par.dt) > (N + 1) * Q
          /\ tmp.I1[p] = N + 1
    /\ \E p \in Interior(N) :
          /\ BackTrace(N, p[2], mem[loc.v][p], par.dt) < 0
          /\ tmp.J0[p] = 0
    /\ \E p \in Interior(N) :
          /\ tmp.X[p] = BackTrace(N, p[1], mem[loc.u][p], par.dt)
          /\ tmp.S1[p] \notin {0, Half}

\* C11 as stated: advection with zero velocity is the identity: if u = v = 0
\* at every cell, every interior cell of d holds the value of d0 after
\* advect, for any dt and any d0.
C11_AdvectZeroVelocityAnyField ==
    (pc = "advect_done" /\ mem0[loc.u] = Zero /\ mem0[loc.v] = Zero) =>
        \A p \in Interior(N) : mem[loc.d][p] = mem0[loc.d0][p]

\* every value of the array g is finite
AllFinite(g) == \A p \in Cells : Finite(g[p])

\* C11: advection with zero velocity is the identity on a field d0 whose
\* values are all finite: if u = v = 0 at every cell, every interior cell of
\* d holds the value of d0 after advect, for any (finite) dt.
C11_AdvectZeroVelocity ==
    (pc = "advect_done" /\ mem0[loc.u] = Zero /\ mem0[loc.v] = Zero
        /\ AllFinite(mem0[loc.d0])) =>
        \A p \in Interior(N) : mem[loc.d][p] = mem0[loc.d0][p]

\* advect has returned from a call with zero velocity on a finite field d0
\* that is not flat and that d did not hold before
C11_Witness ==
    /\ pc = "advect_done"
    /\ mem0[loc.u] = Zero /\ mem0[loc.v] = Zero
    /\ AllFinite(mem0[loc.d0])
    /\ mem0[loc.d0][<<1, 1>>] # mem0[loc.d0][<<N, N>>]
    /\ \A p \in Interior(N) : mem0[loc.d][p] # mem0[loc.d0][p]
    /\ \A p \in Interior(N) : mem[loc.d][p] = mem0[loc.d0][p]

\* C12: advect computes every interior cell from the old field only, also
\* when d and d0 are one array: what lines 101-102 store is the
\* interpolation of d0 as it was when advect was called, no cell written by
\* the pass is read by it.  And in the advect calls of vel_step and
\* dens_step the destination d is another array than d0, u and v.
C12_AdvectFromOldField ==
    /\ pc \in {"advect_bnd", "advect_done"} =>
          \A p \in Interior(N) :
             mem[loc.d][p] = AdvectInterior(N, mem0[loc.d], mem0[loc.d0],
                                            mem0[loc.u], mem0[loc.v], par.dt)[p]
    /\ pc = "vel_advect_u" =>
          VelAdvectUArgs(loc).d \notin
              {VelAdvectUArgs(loc).d0, VelAdvectUArgs(loc).u, VelAdvectUArgs(loc).v}
    /\ pc = "vel_advect_v" =>
          VelAdvectVArgs(loc).d \notin
              {VelAdvectVArgs(loc).d0, VelAdvectVArgs(loc).u, VelAdvectVArgs(loc).v}
    /\ pc = "dens_advect" =>
          DensAdvectArgs(loc).d \notin
              {DensAdvectArgs(loc).d0, DensAdvectArgs(loc).u, DensAdvectArgs(loc).v}

\* advect has stored into the array it samples: the first interior cell was
\* changed, and the last one was interpolated from cells before it
C12_Witness ==
    /\ pc = "advect_bnd"
    /\ loc.d0 = loc.d
    /\ mem[loc.d][<<1, 1>>] # mem0[loc.d][<<1, 1>>]
    /\ tmp.I0[<<N, N>>] < N
    /\ tmp.J0[<<N, N>>] < N

-----------------------------------------------------------------------------
(* Properties of dens_step and vel_step *)

\* dens_step's stages applied to the arrays the call was entered with:
\* the density after add_source, after diffuse and after advect
DensStages ==
    LET sourced == AddSource(N, mem0.dens, mem0.dens_prev, par.dt)
        diffused == Diffuse(N, 0, mem0.dens_prev, sourced, par.diff, par.dt)
    IN  [sourced |-> sourced,
         diffused |-> diffused,
         advected |-> Advect(N, 0, sourced, diffused, mem0.u, mem0.v, par.dt)]

\* C1: dens_step runs add_source, diffuse (kind 0), advect (kind 0, along
\* u, v) in this order, and its two swaps cancel: on return the caller's
\* density array, not prevDensity, holds
\* advect(diffuse(density + dt * prevDensity)).
C1_DensStep ==
    pc = "dens_return" =>
        /\ log = << Call("add_source", -1, <<"dens", "dens_prev">>),
                    Call("diffuse", 0, <<"dens_prev", "dens">>),
                    Call("advect", 0, <<"dens", "dens_prev", "u", "v">>) >>
        /\ loc.x = "dens" /\ loc.x0 = "dens_prev"
        /\ mem.dens = DensStages.advected

\* dens_step is about to return from a call with a source, a diffusion
\* rate and a velocity that made each stage change the density
C1_Witness ==
    /\ pc = "dens_return"
    /\ par.diff > 0
    /\ mem0.dens_prev # Zero
    /\ LET s == DensStages
       IN  /\ s.sourced # mem0.dens
           /\ s.diffused # s.sourced
           /\ mem.dens # s.diffused
           /\ mem.dens_prev = s.diffused

\* the velocity the first projection of vel_step produces from the arrays
\* the call was entered with: u, v after add_source (su, sv), after diffuse
\* (du, dv), and the four arrays after project
VelProjected ==
    LET su == AddSource(N, mem0.u, mem0.u_prev, par.dt)
        sv == AddSource(N, mem0.v, mem0.v_prev, par.dt)
        du == Diffuse(N, 1, mem0.u_prev, su, par.visc, par.dt)
        dv == Diffuse(N, 2, mem0.v_prev, sv, par.visc, par.dt)
    IN  [su |-> su, sv |-> sv, du |-> du, dv |-> dv,
         first |-> Project(N, du, dv, su, sv)]

\* all the stages of vel_step: the first projection, u and v after advect
\* (au, av), and the four arrays after the second project
VelStages ==
    LET s == VelProjected
        p1 == s.first
        au == Advect(N, 1, p1.p, p1.u, p1.u, p1.v, par.dt)
        av == Advect(N, 2, p1.div, p1.v, p1.u, p1.v, par.dt)
    IN  [du |-> s.du, su |-> s.su, first |-> p1, au |-> au, av |-> av,
         last |-> Project(N, au, av, p1.u, p1.v)]

\* C2: vel_step runs add_source on u and on v, diffuse u (kind 1), diffuse v
\* (kind 2), project, advect u (kind 1), advect v (kind 2), project, in this
\* order, and its swaps cancel: on return the caller's u and v hold the
\* twice-projected velocity, and u_prev, v_prev hold what the last project
\* left in its scratch arguments p and div.
C2_VelStep ==
    pc = "vel_return" =>
        /\ log = << Call("add_source", -1, <<"u", "u_prev">>),
                    Call("add_source", -1, <<"v", "v_prev">>),
                    Call("diffuse", 1, <<"u_prev", "u">>),
                    Call("diffuse", 2, <<"v_prev", "v">>),
                    Call("project", -1, <<"u_prev", "v_prev", "u", "v">>),
                    Call("advect", 1, <<"u", "u_prev", "u_prev", "v_prev">>),
                    Call("advect", 2, <<"v", "v_prev", "u_prev", "v_prev">>),
                    Call("project", -1, <<"u", "v", "u_prev", "v_prev">>) >>
        /\ loc.u = "u" /\ loc.v = "v" /\ loc.u0 = "u_prev" /\ loc.v0 = "v_prev"
        /\ LET last == VelStages.last
           IN  /\ mem.u = last.u
               /\ mem.v = last.v
               /\ mem.u_prev = last.p
               /\ mem.v_prev = last.div

\* vel_step is about to return from a call with a force and a viscosity,
\* in which diffusion, both projections and the advection of v each
\* changed the velocity
C2_Witness ==
    /\ pc = "vel_return"
    /\ par.visc > 0
    /\ mem0.u_prev # Zero
    /\ LET s == VelStages
       IN  /\ s.du # s.su
           /\ s.first.u # s.du
           /\ s.av # s.first.v
           /\ mem.u # s.au
           /\ mem.u = s.last.u

\* C3: both advect calls of vel_step sample the velocity the first
\* projection produced: the call for u writes only its destination and
\* leaves every cell of the pair (u0, v0), which the call for v reads next,
\* as it was.
C3_FrozenVelocity ==
    /\ pc = "vel_advect_u" =>
          LET p1 == VelProjected.first
          IN  /\ mem[VelAdvectUArgs(loc).u] = p1.u
              /\ mem[VelAdvectUArgs(loc).v] = p1.v
    /\ pc = "vel_advect_v" =>
          LET p1 == VelProjected.first
          IN  /\ mem[VelAdvectVArgs(loc).u] = p1.u
              /\ mem[VelAdvectVArgs(loc).v] = p1.v
              /\ mem[VelAdvectVArgs(loc).d0] = p1.v

\* u has been advected along a velocity that moved it, and v is about to be
\* advected
C3_Witness ==
    /\ pc = "vel_advect_v"
    /\ Len(log) = 6
    /\ log[6].op = "advect"
    /\ LET p1 == VelProjected.first
       IN  /\ p1.u # Zero
           /\ mem[loc.u0] = p1.u
           /\ \E p \in Interior(N) : mem[loc.u][p] # p1.u[p]

-----------------------------------------------------------------------------
(* Properties of project *)

\* 1e-4, rounded up to the smallest number the fixed point tells from 0
Tolerance == Max(1, RoundDiv(Q, 10000))

Abs(a) == IF a < 0 THEN -a ELSE a

\* the divergence of (u, v) at the interior cell q, as line 111 computes it
Divergence(u, v, q) == ProjectDiv(N, u, v, Zero)[q]

\* C13: after project(N, u, v, p, div) the divergence of (u, v), computed
\* by central differences as project computes it, is within the tolerance
\* of zero at every interior cell.
C13_DivergenceFree ==
    pc \in {"vel_swap_back_u", "vel_return"} =>
        \A q \in Interior(N) :
            Abs(Divergence(mem[loc.u], mem[loc.v], q)) <= Tolerance

-----------------------------------------------------------------------------
(* Boundary cells after each stage *)

\* the ghost cells of the array g are those set_bnd of kind b derives from
\* its interior
Bounded(b, g) == g = SetBnd(N, b, g)

\* C14: every stage that writes interior cells of a field applies set_bnd to
\* that field before it returns: lin_solve after each sweep (hence diffuse)
\* on x, advect on d, project on div and p (kind 0), u (kind 1) and v
\* (kind 2).  None returns with ghost cells that do not match the interior.
C14_BoundaryAfterStage ==
    /\ (pc = "lin_solve" /\ k > 0) \/ pc = "diffuse_done" => Bounded(par.b, mem[loc.x])
    /\ pc = "advect_done" => Bounded(par.b, mem[loc.d])
    /\ pc \in {"vel_swap_back_u", "vel_return"} =>
          /\ Bounded(1, mem[loc.u]) /\ Bounded(2, mem[loc.v])
          /\ Bounded(0, mem[loc.u0]) /\ Bounded(0, mem[loc.v0])
    /\ pc \in {"vel_swap_v", "vel_advect_v"} => Bounded(1, mem[loc.u])
    /\ pc \in {"vel_project", "vel_project_again"} => Bounded(2, mem[loc.v])
    /\ pc \in {"dens_swap_back", "dens_return"} => Bounded(0, mem[loc.x])

\* project has returned: it changed the interior of u and of v, and the
\* ghost cells of u it was given did not match the new interior
C14_Witness ==
    /\ pc = "vel_swap_back_u"
    /\ log[Len(log)].op = "project"
    /\ \E q \in Interior(N) : mem[loc.u][q] # VelProjected.du[q]
    /\ \E q \in Interior(N) : mem[loc.v][q] # VelProjected.dv[q]
    /\ \E q \in Cells \ Interior(N) : mem[loc.u][q] # VelProjected.du[q]

-----------------------------------------------------------------------------
(* Properties of add_source *)

\* x is x0 + dt * s at every cell, as a float: non-finite when x0 or s is,
\* and when the sum is out of the float range
Accumulated(x, x0, s) ==
    \A q \in Cells :
        IF Finite(x0[q]) /\ Finite(s[q])
        THEN x[q] = Fit(x0[q] + RoundDiv(par.dt * s[q], Q))
        ELSE ~Finite(x[q])

\* an add_source call is logged before every diffuse and advect call
SourcesFirst ==
    \A i, j \in 1..Len(log) :
        (log[i].op = "add_source" /\ log[j].op \in {"diffuse", "advect"}) => i < j

\* C15: add_source(N, x, s, dt) is a pure accumulation: afterwards x is the
\* old x + dt * s at every cell and s is unchanged; and in vel_step and in
\* dens_step every add_source call precedes every diffuse and advect call.
C15_AddSource ==
    /\ pc = "vel_add_v" =>
          Accumulated(mem.u, mem0.u, mem0.u_prev) /\ mem.u_prev = mem0.u_prev
    /\ pc = "vel_swap_u" =>
          Accumulated(mem.v, mem0.v, mem0.v_prev) /\ mem.v_prev = mem0.v_prev
    /\ pc = "dens_swap" =>
          Accumulated(mem.dens, mem0.dens, mem0.dens_prev) /\ mem.dens_prev = mem0.dens_prev
    /\ SourcesFirst
    /\ pc \in {"vel_return", "dens_return"} =>
          \E i, j \in 1..Len(log) : log[i].op = "add_source" /\ log[j].op = "advect"

\* add_source has added half of a non-zero source to the density
C15_Witness ==
    /\ pc = "dens_swap"
    /\ par.dt = Half
    /\ mem0.dens_prev # Zero
    /\ mem.dens # mem0.dens
    /\ log = << Call("add_source", -1, <<"dens", "dens_prev">>) >>

-----------------------------------------------------------------------------
(* Properties of the fields over the steps *)

\* C16: zero-input stability: once u, v, dens and u_prev, v_prev, dens_prev
\* are all zero, every cell of each of them is still exactly zero after
\* every statement of vel_step and dens_step, hence after any number of
\* steps.
C16_ZeroStays == [][mem = ZeroArrays => mem' = ZeroArrays]_vars

\* the steps have all been run on arrays that were zero from the start
C16_Witness ==
    /\ frame = MaxFrames
    /\ mem = ZeroArrays
    /\ par.visc > 0 /\ par.diff > 0

\* the sum of the array g over the interior cells number i and up
RECURSIVE SumFrom(_, _)
SumFrom(i, g) == IF i = N * N THEN 0 ELSE g[RowMajor(N, i)] + SumFrom(i + 1, g)

SumInterior(g) == SumFrom(0, g)

NonNegative(g) == \A q \in Cells : g[q] >= 0

\* C17: with diffusion rate 0 and an all-zero dens_prev at the start of the
\* step, for any non-negative density and any velocity, the sum of the
\* density over the interior cells after dens_step is not greater than the
\* sum before the step.
C17_MassNotIncreasing ==
    (pc = "dens_return" /\ par.diff = 0 /\ mem0.dens_prev = Zero /\ NonNegative(mem0.dens)) =>
        SumInterior(mem.dens) <= SumInterior(mem0.dens)

\* a cell that holds a number not less than zero (a non-finite result may
\* be nan, and nan >= 0 is false)
IsNonNegative(a) == Finite(a) /\ a >= 0

\* C18 as stated: if every cell of dens and of dens_prev is non-negative at
\* the start of dens_step (diff >= 0, dt >= 0, any velocity), every cell of
\* dens, ghost cells included, is non-negative after it.
C18_NonNegativeAnyContents ==
    (pc = "dens_return" /\ NonNegative(mem0.dens) /\ NonNegative(mem0.dens_prev)) =>
        \A q \in Cells : IsNonNegative(mem.dens[q])

\* the largest value (1 + 4a)(1 + dt) * g[q] that dens_step can form from a
\* cell of g, a = dt * diff * N * N, is at most half the largest float
Moderate(g) ==
    LET factor == ((Q + 4 * DiffuseA(N, par.diff, par.dt)) * (Q + par.dt)) \div (Q * Q) + 1
    IN  \A q \in Cells : Finite(g[q]) /\ g[q] <= MaxFloat \div (2 * factor)

\* C18: if every cell of dens and of dens_prev is non-negative, finite and
\* small enough that no intermediate result of the step overflows, then after
\* dens_step (diff >= 0, dt >= 0, any finite velocity) every cell of dens,
\* ghost cells included, is finite and non-negative; so it is after every
\* step of a sequence of steps.
C18_NonNegative ==
    (pc = "dens_return" /\ NonNegative(mem0.dens) /\ NonNegative(mem0.dens_prev)
                       /\ Moderate(mem0.dens) /\ Moderate(mem0.dens_prev)) =>
        \A q \in Cells : IsNonNegative(mem.dens[q])

\* a second step has returned with density in the fluid, after a first one
\* that started from non-negative moderate arrays and moved density around
C18_Witness ==
    /\ pc = "dens_return" /\ frame = 1
    /\ NonNegative(mem0.dens) /\ NonNegative(mem0.dens_prev)
    /\ Moderate(mem0.dens) /\ Moderate(mem0.dens_prev)
    /\ par.diff > 0
    /\ \E q \in Cells : mem.dens[q] > 0
    /\ mem.dens # mem0.dens

------------------------------------------------------------------------------
(* The end-to-end scenario *)

\* the sum of the array g over the cells number i and up of the whole grid
RECURSIVE SumGridFrom(_, _)
SumGridFrom(i, g) ==
    IF i = (N + 2) * (N + 2) THEN 0
    ELSE g[<<i \div (N + 2), i % (N + 2)>>] + SumGridFrom(i + 1, g)

SumGrid(g) == SumGridFrom(0, g)

\* the four neighbours of the middle cell
Neighbours ==
    { <<Centre[1] - 1, Centre[2]>>, <<Centre[1] + 1, Centre[2]>>,
      <<Centre[1], Centre[2] - 1>>, <<Centre[1], Centre[2] + 1>> }

\* within a quarter of the injected value
CloseToInjected(s) == 4 * Abs(s - Injected) <= Injected

\* C19: the end-to-end scenario: density zero, one value injected at the
\* middle cell through dens_prev, zero velocity, a small diffusion rate and a
\* time step below one: after one dens_step the density at the middle cell
\* is below the injected value, its four neighbours are strictly positive,
\* and the sum of the density over the grid (ghost cells counted or not) is
\* close to the injected value.
C19_Scenario ==
    (pc = "dens_return" /\ mem0 = ScenarioArrays /\ par.diff = Half /\ par.dt = Half) =>
        /\ mem.dens[Centre] < Injected
        /\ \A q \in Neighbours : mem.dens[q] > 0
        /\ CloseToInjected(SumInterior(mem.dens)) \/ CloseToInjected(SumGrid(mem.dens))

------------------------------------------------------------------------------
(* The source arrays over the steps *)

\* C20: a source written once into dens_prev (or u_prev, v_prev) and not
\* touched by the caller acts as a continuous emitter: when vel_step and
\* dens_step return, the source arrays hold what the caller wrote, so that
\* the add_source of every later call adds dt times that same source.
C20_ContinuousEmitter ==
    /\ pc = "vel_return" => mem.u_prev = mem0.u_prev /\ mem.v_prev = mem0.v_prev
    /\ pc = "dens_return" => mem.dens_prev = mem0.dens_prev

------------------------------------------------------------------------------
(* dens_step on arrays of any shape: what numpy accepts *)

\* In this part mem gives the shape <<rows, columns>> of each array the
\* caller passes, and log the arrays that have been written so far.

\* the lengths tried for each axis: a single row, the expected N + 2, and
\* one more
AxisLengths == {1, N + 2, N + 3}
Shapes == AxisLengths \X AxisLengths
Expected == <<N + 2, N + 2>>

\* the lengths of the slices 1:-1, :N and 2: of an axis of length d
Inner(d) == Max(d - 2, 0)
UpTo(n, d) == Min(n, d)
From2(d) == Max(d - 2, 0)

\* numpy's broadcasting of axis lengths: all the lengths other than 1 must
\* agree; -1 stands for the ValueError
BroadcastAxis(ds) ==
    IF ds \ {1} = {} THEN 1
    ELSE IF Cardinality(ds \ {1}) = 1 THEN CHOOSE d \in ds \ {1} : TRUE
    ELSE -1

\* a value of axis length r can be stored in a target of axis length d
Storable(d, r) == r # -1 /\ (r = d \/ r = 1)

\* line 57, x += dt * s, is accepted for the shapes x and s
AddSourceAccepts(x, s) == \A ax \in 1..2 : Storable(x[ax], s[ax])

\* line 49-51 along one axis: the slices of x across the axis (1:-1, :N, 2:)
\* and the slice 1:-1 of x0 are broadcast and stored in x[1:-1]
LinSolveAxisAccepts(n, d, d0) ==
    Storable(Inner(d), BroadcastAxis({Inner(d0), Inner(d), UpTo(n, d), From2(d)}))

\* lines 27-42: set_bnd reads the rows and columns 1 and N of x
SetBndAccepts(n, x) == \A ax \in 1..2 : x[ax] >= n + 1

\* the first iteration of lin_solve is accepted for the shapes x and x0
LinSolveAccepts(n, x, x0) ==
    /\ \A ax \in 1..2 : LinSolveAxisAccepts(n, x[ax], x0[ax])
    /\ SetBndAccepts(n, x)

\* lines 86-87: u[I, J] and v[I, J] with I, J in 1..N
AdvectReadsVelocity(n, u, v) == \A ax \in 1..2 : u[ax] >= n + 1 /\ v[ax] >= n + 1

\* lines 101-102: d0[I1, J1] reaches index N + 1 or not, as the velocity has
\* it; the indices never exceed N + 1
AdvectReadsField(n, d0) ==
    IF \A ax \in 1..2 : d0[ax] >= n + 2 THEN {TRUE}
    ELSE IF \A ax \in 1..2 : d0[ax] >= 2 THEN {TRUE, FALSE}
    ELSE {FALSE}

\* line 101: d[I, J] = ... with I, J in 1..N, then set_bnd(N, b, d)
AdvectStores(n, d) == \A ax \in 1..2 : d[ax] >= n + 1

InitShape ==
    /\ mem \in [{"dens", "dens_prev", "u", "v"} -> Shapes]
    /\ mem0 = mem
    /\ loc = [x |-> "dens", x0 |-> "dens_prev", u |-> "u", v |-> "v"]
    /\ par = NoLocals
    /\ pc = "shape_add"
    /\ k = 0
    /\ tmp = NoLocals
    /\ frame = 0
    /\ log = NoCall

\* a statement of dens_step on shapes: it is accepted and writes the array
\* a, or it raises
ShapeStage(accepted, a, next) ==
    /\ pc' = IF accepted THEN next ELSE "shape_raised"
    /\ log' = IF accepted THEN Append(log, a) ELSE log
    /\ UNCHANGED <<mem, mem0, loc, par, k, tmp, frame>>

\* line 126: add_source(N, x, x0, dt)
ShapeAddSource ==
    /\ pc = "shape_add"
    /\ ShapeStage(AddSourceAccepts(mem[loc.x], mem[loc.x0]), loc.x, "shape_swap")

\* line 127: x0, x = x, x0
ShapeSwap ==
    /\ pc = "shape_swap"
    /\ loc' = SwapRefs(loc, "x", "x0")
    /\ pc' = "shape_diffuse"
    /\ UNCHANGED <<mem, mem0, par, k, tmp, frame, log>>

\* line 128: diffuse(N, 0, x, x0, diff, dt)
ShapeDiffuse ==
    /\ pc = "shape_diffuse"
    /\ ShapeStage(LinSolveAccepts(N, mem[loc.x], mem[loc.x0]), loc.x, "shape_swap_back")

\* line 129: x0, x = x, x0
ShapeSwapBack ==
    /\ pc = "shape_swap_back"
    /\ loc' = SwapRefs(loc, "x", "x0")
    /\ pc' = "shape_advect"
    /\ UNCHANGED <<mem, mem0, par, k, tmp, frame, log>>

\* line 130: advect(N, 0, x, x0, u, v, dt)
ShapeAdvect ==
    /\ pc = "shape_advect"
    /\ \E reads \in AdvectReadsField(N, mem[loc.x0]) :
          ShapeStage(/\ AdvectReadsVelocity(N, mem[loc.u], mem[loc.v])
                     /\ reads
                     /\ AdvectStores(N, mem[loc.x])
                     /\ SetBndAccepts(N, mem[loc.x]),
                     loc.x, "shape_return")

NextShape == ShapeAddSource \/ ShapeSwap \/ ShapeDiffuse \/ ShapeSwapBack \/ ShapeAdvect

SpecShape == InitShape /\ [][NextShape]_vars

\* some array passed to dens_step has not the shape (N + 2, N + 2)
Mismatched == \E a \in DOMAIN mem : mem[a] # Expected

\* C21: a shape mismatch fails fast: when dens_step is called with an array
\* whose shape is not (N + 2, N + 2), or with arrays of different shapes, it
\* raises before any array is written, and never returns normally.
C21_ShapeMismatchFailsFast ==
    (pc \in {"shape_add", "shape_swap", "shape_diffuse", "shape_swap_back",
             "shape_advect", "shape_raised", "shape_return"} /\ Mismatched) =>
        (log = NoCall /\ pc # "shape_return")

------------------------------------------------------------------------------
(* array_list.py: ArrayList *)

\* In this part mem holds the fields of one ArrayList, _data and _items (as
\* sequences: element i of the array is at position i + 1), _size and _count;
\* mem0 holds them as they were before the last call, par is the last call,
\* tmp its outcome and frame the number of calls made.

\* the longest data the list is constructed from
MaxInit == 5
\* the longest data one insert or append call passes
MaxData == 2
\* the number of insert, append and del calls made on one list
MaxOps == 2

\* np.zeros(512, dtype=dtype) and np.zeros((64, 2), dtype=int)
DataCapacity == 512
ItemCapacity == 64

NoObject == <<>>

\* a Python slice bound i on a sequence of length n
SliceIndex(i, n) == IF i < 0 THEN Max(i + n, 0) ELSE Min(i, n)

\* the number of elements of s[a:b]
SliceLen(s, a, b) == Max(SliceIndex(b, Len(s)) - SliceIndex(a, Len(s)), 0)

\* s[a:b]
Slice(s, a, b) ==
    IF SliceLen(s, a, b) = 0 THEN <<>>
    ELSE SubSeq(s, SliceIndex(a, Len(s)) + 1, SliceIndex(b, Len(s)))

\* s[a:b] = v is accepted: v has the length of the slice, or length 1
Broadcasts(s, a, b, v) == Len(v) = SliceLen(s, a, b) \/ Len(v) = 1

\* s after s[a:b] = v
SetSlice(s, a, b, v) ==
    LET lo == SliceIndex(a, Len(s))
        hi == SliceIndex(b, Len(s))
    IN  [i \in 1..Len(s) |->
            IF i > lo /\ i <= hi THEN (IF Len(v) = 1 THEN v[1] ELSE v[i - lo]) ELSE s[i]]

\* int(2**np.ceil(np.log2(n)))
RECURSIVE Pow2From(_, _)
Pow2From(p, n) == IF p >= n THEN p ELSE Pow2From(2 * p, n)
Pow2Ceil(n) == IF n = 0 THEN 0 ELSE Pow2From(1, n)

\* np.resize(s, cap): s repeated up to the length cap (zeros if s is empty)
Resize(s, cap, zero) ==
    [i \in 1..cap |-> IF Len(s) = 0 THEN zero ELSE s[((i - 1) % Len(s)) + 1]]

\* the sizes argument: None, an int, or a list of ints
NoSizes == [kind |-> "none", n |-> 0, l |-> <<>>]
IntSizes(n) == [kind |-> "int", n |-> n, l |-> <<>>]
ListSizes(l) == [kind |-> "list", n |-> 0, l |-> l]

RECURSIVE SumTo(_, _)
SumTo(l, i) == IF i = 0 THEN 0 ELSE l[i] + SumTo(l, i - 1)

\* every partition is accepted
PartitionUnchecked(size, sizes) == "none"

\* lines 317-329 (and 87-99): the error the check of sizes raises, if any
PartitionError(size, sizes) ==
    IF sizes.kind = "none" THEN "none"
    ELSE IF sizes.kind = "int"
    THEN (IF sizes.n = 0 THEN "ZeroDivisionError"
          ELSE IF size % sizes.n # 0 THEN "ValueError"
          ELSE IF size \div sizes.n = 0 THEN "ZeroDivisionError"
          ELSE "none")
    ELSE IF SumTo(sizes.l, Len(sizes.l)) # size THEN "ValueError"
    ELSE "none"

\* _sizes: the sizes of the new items
ItemSizes(size, sizes) ==
    IF sizes.kind = "none" THEN <<size>>
    ELSE IF sizes.kind = "int"
    THEN [i \in 1..(size \div sizes.n) |-> size \div (size \div sizes.n)]
    ELSE sizes.l

\* lines 381-384 (and 102-105): the rows of the new items, from dstart on
NewItems(dstart, l) ==
    [i \in 1..Len(l) |-> <<dstart + SumTo(l, i - 1), dstart + SumTo(l, i)>>]

\* the rows moved by size
Shifted(rows, size) == [i \in 1..Len(rows) |-> <<rows[i][1] + size, rows[i][2] + size>>]

\* ArrayList(data, sizes): the new object, or the error raised
Construct(data, sizes) ==
    LET err == PartitionError(Len(data), sizes)
    IN  IF err # "none" THEN [obj |-> NoObject, out |-> err]
        ELSE [obj |-> [data |-> data, items |-> NewItems(0, ItemSizes(Len(data), sizes)),
                       size |-> Len(data), count |-> Len(ItemSizes(Len(data), sizes))],
              out |-> "returned"]

\* ArrayList(): lines 108-111
Empty ==
    [data |-> [i \in 1..DataCapacity |-> 0], items |-> [i \in 1..ItemCapacity |-> <<0, 0>>],
     size |-> 0, count |-> 0]

\* lines 347-387 of insert, on the resized arrays d1 and i1
InsertAt(o, d1, i1, idx, data, cnt, l) ==
    LET size == Len(data)
        inserting == idx < o.count
        istart == IF inserting THEN idx ELSE o.count
        dstart == IF inserting THEN i1[istart + 1][1] ELSE o.size
        d2 == IF inserting
              THEN SetSlice(d1, dstart + size, o.size + size, Slice(d1, dstart, o.size))
              ELSE d1
        i2 == IF inserting
              THEN SetSlice(i1, istart + cnt, o.count + cnt,
                            Shifted(Slice(i1, istart, o.count), size))
              ELSE i1
        moved == [data |-> d2, items |-> i2, size |-> o.size, count |-> o.count]
    IN  IF inserting /\ ~Broadcasts(d1, dstart + size, o.size + size, Slice(d1, dstart, o.size))
        THEN [obj |-> [o EXCEPT !.data = d1, !.items = i1], out |-> "ValueError"]
        ELSE IF inserting /\ ~Broadcasts(i1, istart + cnt, o.count + cnt, Slice(i1, istart, o.count))
        THEN [obj |-> [moved EXCEPT !.items = i1], out |-> "ValueError"]
        ELSE IF ~Broadcasts(d2, dstart, dstart + size, data)
        THEN [obj |-> moved, out |-> "ValueError"]
        ELSE [obj |-> [data |-> SetSlice(d2, dstart, dstart + size, data),
                       items |-> IF cnt = 1
                                 THEN [i2 EXCEPT ![istart + 1] = <<dstart, dstart + size>>]
                                 ELSE SetSlice(i2, istart, istart + cnt, NewItems(dstart, l)),
                       size |-> o.size + size,
                       count |-> o.count + cnt],
              out |-> "returned"]

\* L.insert(index, data, sizes) on the object o: the object afterwards and
\* the outcome of the call
Insert(o, index, data, sizes) ==
    LET size == Len(data)
        err == PartitionError(size, sizes)
        l == ItemSizes(size, sizes)
        cnt == IF sizes.kind = "none" THEN 1 ELSE Len(l)
        d1 == IF o.size + size >= Len(o.data)
              THEN Resize(o.data, Pow2Ceil(o.size + size), 0) ELSE o.data
        i1 == IF o.count + cnt >= Len(o.items)
              THEN Resize(o.items, Pow2Ceil(o.count + cnt), <<0, 0>>) ELSE o.items
        idx == IF index < 0 THEN index + o.count ELSE index
    IN  IF err # "none" THEN [obj |-> o, out |-> err]
        ELSE IF idx < 0 \/ idx > o.count
        THEN [obj |-> [o EXCEPT !.data = d1, !.items = i1], out |-> "IndexError"]
        ELSE InsertAt(o, d1, i1, idx, data, cnt, l)

\* the key of del L[key]: an int, a slice a:b, or Ellipsis
IntKey(i) == [kind |-> "int", a |-> i, b |-> 0]
SliceKey(a, b) == [kind |-> "slice", a |-> a, b |-> b]
AllKey == [kind |-> "all", a |-> 0, b |-> 0]

\* the rows of the slice a:b moved back by d
SubtractRows(rows, a, b, d) ==
    LET lo == SliceIndex(a, Len(rows))
        hi == SliceIndex(b, Len(rows))
    IN  [i \in 1..Len(rows) |->
            IF i > lo /\ i <= hi THEN <<rows[i][1] - d, rows[i][2] - d>> ELSE rows[i]]

\* line 277: the last row whose bounds are updated, istop + size + 1
DeleteUpdatesTo(o, istop, size) == istop + size + 1

\* lines 266-278 of __delitem__: the items istart..istop-1, which hold
\* data[dstart:dstop], are removed
DeleteRange(o, istart, istop, dstart, dstop) ==
    LET size1 == o.size - (dstop - dstart)
        source == Slice(o.data, dstop, dstop + size1)
        d1 == SetSlice(o.data, dstart, dstart + size1, source)
        size2 == o.count - istop
        rows == Slice(o.items, istop, istop + size2)
        i1 == SetSlice(o.items, istart, istart + size2, rows)
        size3 == dstop - dstart
    IN  IF ~Broadcasts(o.data, dstart, dstart + size1, source)
        THEN [obj |-> o, out |-> "ValueError"]
        ELSE IF ~Broadcasts(o.items, istart, istart + size2, rows)
        THEN [obj |-> [o EXCEPT !.data = d1, !.size = o.size - size3], out |-> "ValueError"]
        ELSE [obj |-> [data |-> d1,
                       items |-> SubtractRows(i1, istart, DeleteUpdatesTo(o, istop, size3), size3),
                       size |-> o.size - size3,
                       count |-> o.count - (istop - istart)],
              out |-> "returned"]

\* del L[key] on the object o: the object afterwards and the outcome
Delete(o, key) ==
    IF key.kind = "int"
    THEN LET i == IF key.a < 0 THEN key.a + o.count ELSE key.a
         IN  IF i < 0 \/ i > o.count \/ i >= Len(o.items)
             THEN [obj |-> o, out |-> "IndexError"]
             ELSE DeleteRange(o, i, i + 1, o.items[i + 1][1], o.items[i + 1][2])
    ELSE IF key.kind = "slice"
    THEN LET a == SliceIndex(key.a, o.count)
             b == SliceIndex(key.b, o.count)
             istart == Min(a, b)
             istop == Max(a, b)
         IN  IF istart = istop THEN [obj |-> o, out |-> "returned"]
             ELSE DeleteRange(o, istart, istop, o.items[istart + 1][1], o.items[istop][2])
    ELSE DeleteRange(o, 0, o.count, 0, o.size)

\* L[i]: lines 159-166
GetItem(o, i) == Slice(o.data, o.items[i + 1][1], o.items[i + 1][2])

\* the list as a Python list of its items
Listed(o) == [i \in 1..o.count |-> GetItem(o, i - 1)]

\* the data and sizes arguments tried
Iota(from, n) == [i \in 1..n |-> from + i]
SizesTried == { NoSizes, IntSizes(2), ListSizes(<<1, 1>>) }
InitSizesTried == { IntSizes(n) : n \in 1..3 } \cup { ListSizes(<<1, 2>>), ListSizes(<<2, 1, 1>>) }

\* the indexes tried: the first items, the last one, the end of the list,
\* one beyond the end and the last item counted from the end
IndexesTried(o) == {-1, 0, 1, o.count - 1, o.count, o.count + 1}

\* the keys tried: the same indexes, the slices of the first items, Ellipsis
KeysTried(o) ==
    { IntKey(i) : i \in IndexesTried(o) \ {o.count + 1} }
        \cup { SliceKey(a, b) : a \in {0, 1}, b \in 0..2 } \cup { AllKey }

InitList ==
    /\ mem = NoObject
    /\ mem0 = NoObject
    /\ loc = NoLocals
    /\ par = NoLocals
    /\ pc = "list_new"
    /\ k = 0
    /\ tmp = "none"
    /\ frame = 0
    /\ log = NoCall

\* the effect of a call c on the list: r is the object afterwards and the
\* outcome
ListCall(c, r) ==
    /\ mem0' = mem
    /\ mem' = r.obj
    /\ tmp' = r.out
    /\ par' = c
    /\ frame' = frame + 1
    /\ UNCHANGED <<loc, pc, k, log>>

\* L = ArrayList() or L = ArrayList(data, sizes)
ListNew ==
    /\ pc = "list_new"
    /\ \/ /\ mem' = Empty
          /\ tmp' = "returned"
          /\ par' = [op |-> "new", data |-> <<>>, sizes |-> NoSizes]
       \/ \E n \in 1..MaxInit, sizes \in InitSizesTried :
            /\ mem' = Construct(Iota(0, n), sizes).obj
            /\ tmp' = Construct(Iota(0, n), sizes).out
            /\ par' = [op |-> "new", data |-> Iota(0, n), sizes |-> sizes]
    /\ pc' = IF tmp' = "returned" THEN "list" ELSE "list_failed"
    /\ UNCHANGED <<mem0, loc, k, frame, log>>

\* L.insert(index, data, sizes)
ListInsert ==
    /\ pc = "list"
    /\ frame < MaxOps
    /\ \E index \in IndexesTried(mem), n \in 1..MaxData, sizes \in SizesTried :
          ListCall([op |-> "insert", index |-> index, data |-> Iota(10 * (frame + 1), n),
                    sizes |-> sizes],
                   Insert(mem, index, Iota(10 * (frame + 1), n), sizes))

\* L.append(data, sizes): self.insert(len(self), data, sizes)
ListAppend ==
    /\ pc = "list"
    /\ frame < MaxOps
    /\ \E n \in 1..MaxData, sizes \in SizesTried :
          ListCall([op |-> "append", index |-> mem.count, data |-> Iota(10 * (frame + 1), n),
                    sizes |-> sizes],
                   Insert(mem, mem.count, Iota(10 * (frame + 1), n), sizes))

\* del L[key]
ListDelete ==
    /\ pc = "list"
    /\ frame < MaxOps
    /\ \E key \in KeysTried(mem) :
          ListCall([op |-> "del", key |-> key], Delete(mem, key))

NextList == ListNew \/ ListInsert \/ ListAppend \/ ListDelete

SpecList == InitList /\ [][NextList]_vars

------------------------------------------------------------------------------
(* Properties of ArrayList *)

\* the call c passes an int sizes that does not divide the number of data
\* elements, or a list of sizes whose sum differs from it
BadPartition(c) ==
    \/ c.sizes.kind = "int" /\ (c.sizes.n = 0 \/ Len(c.data) % c.sizes.n # 0)
    \/ c.sizes.kind = "list" /\ SumTo(c.sizes.l, Len(c.sizes.l)) # Len(c.data)

\* L.data: the elements in use
DataOf(o) == Slice(o.data, 0, o.size)

Pieces(c) ==
    LET l == ItemSizes(Len(c.data), c.sizes)
    IN  [j \in 1..Len(l) |-> SubSeq(c.data, SumTo(l, j - 1) + 1, SumTo(l, j))]

\* the list new is the list old with the items added inserted before index i
InsertedBefore(new, old, i, added) ==
    /\ Len(new) = Len(old) + Len(added)
    /\ \A j \in 1..i : new[j] = old[j]
    /\ \A j \in 1..Len(added) : new[i + j] = added[j]
    /\ \A j \in (i + 1)..Len(old) : new[j + Len(added)] = old[j]

\* C23: insert(index, data, sizes) inserts before index: for any list and
\* any 0 <= index <= len the new items are at index..index+k-1 with the
\* given contents, the items before index are unchanged, those from index on
\* follow in their order with unchanged contents; and append(data) is
\* insert(len, data).
C23_InsertBefore ==
    (pc = "list" /\ par.op \in {"insert", "append"} /\ ~BadPartition(par)
        /\ par.index >= 0 /\ par.index <= mem0.count) =>
        /\ tmp = "returned"
        /\ InsertedBefore(Listed(mem), Listed(mem0), par.index, Pieces(par))
        /\ par.op = "append" => par.index = mem0.count

\* the Python list old without its items a..b-1
Removed(old, a, b) ==
    [j \in 1..(Len(old) - (b - a)) |-> IF j <= a THEN old[j] ELSE old[j + (b - a)]]

\* the key is a valid index of the list o, or a slice
ValidKey(o, key) ==
    \/ key.kind = "int" /\ key.a >= -o.count /\ key.a < o.count
    \/ key.kind = "slice"

\* the first and the next-to-last item that del old[key] removes from a
\* Python list
FirstRemoved(o, key) ==
    IF key.kind = "int" THEN (IF key.a < 0 THEN key.a + o.count ELSE key.a)
    ELSE SliceIndex(key.a, o.count)
EndRemoved(o, key) ==
    IF key.kind = "int" THEN FirstRemoved(o, key) + 1
    ELSE Max(SliceIndex(key.a, o.count), SliceIndex(key.b, o.count))

\* C24: del L[key] behaves like list deletion: for any list and any valid
\* int index (or slice) the addressed items are removed, len decreases by
\* their number, and every remaining item is still retrieved by L[i], in the
\* original order and with unchanged contents.
C24_DeleteLikeList ==
    (pc = "list" /\ par.op = "del" /\ ValidKey(mem0, par.key)) =>
        /\ tmp = "returned"
        /\ Listed(mem) = Removed(Listed(mem0), FirstRemoved(mem0, par.key), EndRemoved(mem0, par.key))

\* the first count rows of the item table are a contiguous partition of
\* data[0:size]
Contiguous(o) ==
    /\ o.count > 0 => o.items[1][1] = 0 /\ o.items[o.count][2] = o.size
    /\ o.count = 0 => o.size = 0
    /\ \A i \in 1..o.count : o.items[i][1] <= o.items[i][2]
    /\ \A i \in 1..(o.count - 1) : o.items[i][2] = o.items[i + 1][1]

\* C30: after any sequence of successful insert, append and del calls the
\* first len rows of the item table are a contiguous partition of
\* data[0:size]: the first item starts at 0, each stop is the next start,
\* start <= stop, and the last stop is size.
C30_LayoutInvariant ==
    (pc = "list" /\ tmp = "returned") => Contiguous(mem)

\* ---------------------------------------------------------------------------
\* maze_numpy.py: BellmanFord, the loop that propagates the gradient
\* ---------------------------------------------------------------------------

\* the mazes tried have MazeSize rows and MazeSize columns
MazeSize == 4

MazeIdx == 0..(MazeSize - 1)
MazeCells == MazeIdx \X MazeIdx
MazeInterior == (1..(MazeSize - 2)) \X (1..(MazeSize - 2))
MazeBorder == MazeCells \ MazeInterior

\* the mazes tried: Z[c] is TRUE on a wall.  The border is filled, as
\* build_maze fills it, or has one opening; the walls inside are arbitrary.
\* The entrance is any cell that is not a wall, the exit any cell.
Mazes ==
    { [c \in MazeCells |-> IF c \in MazeInterior THEN c \in walls
                           ELSE c \notin doors] :
        walls \in SUBSET MazeInterior,
        doors \in {{}} \cup { {d} : d \in MazeBorder } }

\* A value of G is 0.0 or a power of gamma: it is written 0 for 0.0 and
\* e + 1 for gamma^e.  (A positive double times 0.99 is positive again, the
\* smallest one rounding to itself, so a power of gamma is never 0.0.)
One == 1

\* x * gamma
Gamma(x) == IF x = 0 THEN 0 ELSE x + 1

\* np.maximum(x, y): the smaller exponent is the larger value
Maximum(x, y) == IF x = 0 THEN y ELSE IF y = 0 THEN x ELSE Min(x, y)

\* (1 - Z)[c] * x: walls have value 0 in the reversed maze
Masked(Z, c, x) == IF Z[c] THEN 0 ELSE x

\* G as the function enters its loop
Gradient0(start) == [c \in MazeCells |-> IF c = start THEN One ELSE 0]

\* one pass of the loop body: G_gamma is G * gamma, and every cell of
\* G[1:-1,1:-1] becomes the masked maximum of itself and its four neighbours
\* in G_gamma; the first and last rows and columns of G are not assigned
Sweep(Z, G) ==
    LET G_gamma == [c \in MazeCells |-> Gamma(G[c])]
    IN  [c \in MazeCells |->
            IF c \in MazeInterior
            THEN LET north == G_gamma[<<c[1] - 1, c[2]>>]
                     west == G_gamma[<<c[1], c[2] - 1>>]
                     centre == G[c]
                     east == G_gamma[<<c[1], c[2] + 1>>]
                     south == G_gamma[<<c[1] + 1, c[2]>>]
                 IN  Masked(Z, c, Maximum(north, Maximum(west,
                                    Maximum(centre, Maximum(east, south)))))
            ELSE G[c]]

InitMaze ==
    /\ \E Z \in Mazes, start \in MazeCells, goal \in MazeCells :
        /\ ~Z[start]
        /\ mem = [Z |-> Z, G |-> Gradient0(start)]
        /\ par = [start |-> start, goal |-> goal]
    /\ mem0 = NoObject
    /\ loc = NoLocals
    /\ pc = "maze_loop"
    /\ k = 0
    /\ tmp = "none"
    /\ frame = 0
    /\ log = NoCall

\* while G[goal] == 0.0: one more pass
MazeSweep ==
    /\ pc = "maze_loop"
    /\ mem.G[par.goal] = 0
    /\ mem' = [mem EXCEPT !.G = Sweep(mem.Z, mem.G)]
    /\ UNCHANGED <<mem0, loc, par, pc, k, tmp, frame, log>>

\* the loop's condition is false: the function goes on to the descent
MazeExit ==
    /\ pc = "maze_loop"
    /\ mem.G[par.goal] # 0
    /\ pc' = "maze_done"
    /\ UNCHANGED <<mem, mem0, loc, par, k, tmp, frame, log>>

NextMaze == MazeSweep \/ MazeExit

SpecMaze == InitMaze /\ [][NextMaze]_vars

\* the interpreter keeps running the loop
SpecMazeFair == SpecMaze /\ WF_vars(MazeSweep) /\ WF_vars(MazeExit)

Adjacent(c, d) ==
    \/ c[1] = d[1] /\ (c[2] = d[2] + 1 \/ d[2] = c[2] + 1)
    \/ c[2] = d[2] /\ (c[1] = d[1] + 1 \/ d[1] = c[1] + 1)

\* the cells a path of non-wall cells leads to from the cells of S
RECURSIVE Flood(_, _)
Flood(Z, S) ==
    LET T == S \cup { c \in MazeCells : ~Z[c] /\ \E d \in S : Adjacent(c, d) }
    IN  IF T = S THEN S ELSE Flood(Z, T)

\* goal is reachable from start through non-wall cells
Reachable == ~mem.Z[par.start] /\ par.goal \in Flood(mem.Z, {par.start})

\* C25: the loop terminates if and only if goal is reachable from start
\* through non-wall cells: when it is, the loop is left after finitely many
\* passes, and the loop is left only when it is.
C25_TerminatesIffReachable ==
    /\ (pc = "maze_loop" /\ Reachable) ~> (pc = "maze_done")
    /\ [](pc = "maze_done" => Reachable)

-----------------------------------------------------------------------------
(* The caller's arrays between the steps *)

Ghosts == Cells \ Interior(N)

\* C26: whenever vel_step returns, the caller's u is a fixed point of set_bnd
\* of kind 1 and its v of set_bnd of kind 2; whenever dens_step returns, its
\* density is a fixed point of set_bnd of kind 0; between two frames all
\* three hold.  This is so in every frame and whatever the sources contain.
C26_StepBoundary ==
    /\ pc = "vel_return" => Bounded(1, mem.u) /\ Bounded(2, mem.v)
    /\ pc = "dens_return" => Bounded(0, mem.dens)
    /\ (pc = "update" /\ frame > 0) =>
          Bounded(1, mem.u) /\ Bounded(2, mem.v) /\ Bounded(0, mem.dens)

\* dens_step returns in the second frame: it has changed ghost cells of the
\* density, and the ghost cells of u and v are not all zero
C26_Witness ==
    /\ pc = "dens_return"
    /\ frame = 1
    /\ \E q \in Ghosts : mem.dens[q] # mem0.dens[q]
    /\ \E q \in Ghosts : mem.u[q] # 0
    /\ \E q \in Ghosts : mem.v[q] # 0

-----------------------------------------------------------------------------
(* project(N, u, v, p, div) run twice on the same u and v *)

\* what the scratch arrays may hold when project is entered: zeros, a ramp,
\* a ramp with inf or nan in an interior cell and in a ghost cell, and the
\* largest float everywhere
ScratchGrids ==
    { Zero, Ramp(1, 2, -MaxVal),
      [Ramp(0, 1, MaxVal) EXCEPT ![<<1, 1>>] = NonFinite, ![<<0, N>>] = NonFinite],
      [q \in Cells |-> MaxFloat] }

\* the velocities handed to project
ProjectedGrids == SlowVelGrids \cup { [q \in Cells |-> Q * Ramp(1, 2, 0)[q]] }

ProjectArrays(u, v, p, div) == [u |-> u, v |-> v, p |-> p, div |-> div]

\* the arrays m after lines 110-116: div computed, p zeroed, set_bnd on both
ProjectPrepared(m) ==
    [m EXCEPT !.div = SetBnd(N, 0, ProjectDiv(N, m.u, m.v, m.div)),
              !.p = SetBnd(N, 0, ProjectZero(m.p))]

\* the arrays m after lines 117-121: lin_solve on p, the gradient of p
\* subtracted from u and v, set_bnd on both
ProjectSolved(m) ==
    LET p2 == LinSolve(N, 0, m.p, m.div, Q, 4 * Q)
    IN  [m EXCEPT !.p = p2,
                  !.u = SetBnd(N, 1, ProjectSubU(N, m.u, p2)),
                  !.v = SetBnd(N, 2, ProjectSubV(N, m.v, p2))]

\* mem holds the arrays of one run and mem0 those of the other, tmp the
\* arrays both runs were entered with
InitProject ==
    /\ \E u \in ProjectedGrids, v \in ProjectedGrids,
          p \in ScratchGrids, div \in ScratchGrids,
          p_ \in ScratchGrids, div_ \in ScratchGrids :
        /\ mem = ProjectArrays(u, v, p, div)
        /\ mem0 = ProjectArrays(u, v, p_, div_)
    /\ tmp = <<mem, mem0>>
    /\ loc = NoLocals
    /\ par = NoLocals
    /\ pc = "project"
    /\ k = 0
    /\ frame = 0
    /\ log = NoCall

\* both runs up to the call of lin_solve
ProjectPrepare ==
    /\ pc = "project"
    /\ mem' = ProjectPrepared(mem)
    /\ mem0' = ProjectPrepared(mem0)
    /\ pc' = "project_solve"
    /\ UNCHANGED <<loc, par, k, tmp, frame, log>>

\* both runs from the call of lin_solve to the return
ProjectFinish ==
    /\ pc = "project_solve"
    /\ mem' = ProjectSolved(mem)
    /\ mem0' = ProjectSolved(mem0)
    /\ pc' = "project_done"
    /\ UNCHANGED <<loc, par, k, tmp, frame, log>>

NextProject == ProjectPrepare \/ ProjectFinish

SpecProject == InitProject /\ [][NextProject]_vars

\* C27: two runs of project on the same u and v, whatever p and div held
\* before: p is zero in every cell, ghost cells included, when lin_solve is
\* called, div holds in no cell what it held before unless the new value
\* coincides, and u, v, p and div are the same in both runs in every cell
\* when lin_solve is called and when project returns.
C27_ScratchIndependent ==
    /\ pc = "project_solve" => mem.p = Zero /\ mem0.p = Zero /\ mem.div = mem0.div
    /\ pc \in {"project_solve", "project_done"} => mem = mem0

\* project has returned in two runs that were entered with different p and
\* different div, in ghost cells and interior cells; the pressure it found
\* is not zero
C27_Witness ==
    /\ pc = "project_done"
    /\ \E q \in Ghosts : tmp[1].p[q] # tmp[2].p[q]
    /\ \E q \in Interior(N) : tmp[1].p[q] # tmp[2].p[q]
    /\ \E q \in Ghosts : tmp[1].div[q] # tmp[2].div[q]
    /\ \E q \in Interior(N) : tmp[1].div[q] # tmp[2].div[q]
    /\ mem.p # Zero
    /\ mem.u # tmp[1].u

-----------------------------------------------------------------------------
(* The source arrays after the steps *)

\* the pressure lin_solve finds for the divergence div, starting from zero
Pressure(div) == LinSolve(N, 0, Zero, div, Q, 4 * Q)

\* C28: when vel_step returns, the caller's u_prev holds the pressure and
\* its v_prev the divergence of the last projection, the one of the advected
\* velocity; when dens_step returns, the caller's dens_prev holds the
\* density as diffuse left it, before advect.  None holds the source the
\* caller wrote, unless the values coincide.
C28_SourcesOverwritten ==
    /\ pc = "vel_return" =>
          LET s == VelStages
          IN  /\ mem.v_prev = SetBnd(N, 0, ProjectDiv(N, s.au, s.av, Zero))
              /\ mem.u_prev = Pressure(mem.v_prev)
    /\ pc = "dens_return" => mem.dens_prev = DensStages.diffused

\* dens_step returns from a call with a source, which dens_prev no longer
\* holds; u_prev holds a pressure that is not zero
C28_Witness ==
    /\ pc = "dens_return"
    /\ mem0.dens_prev # Zero
    /\ mem.dens_prev # mem0.dens_prev
    /\ mem.dens # mem.dens_prev
    /\ mem.u_prev # Zero
    /\ mem.u_prev = Pressure(mem.v_prev)

-----------------------------------------------------------------------------
(* python-fluid/demo-plt.py: the mouse handlers, user_step and update *)

\* force = 5.0, source = 100.0
Force == 5
Source == 100

\* mouse["button"] when no button is held (None)
NoButton == 0

\* the buttons an event reports
Buttons == {1, 2, 3}

\* event.xdata, event.ydata in data coordinates: inside the unit square
\* (0.5), on its far edge (1.0), and beyond it on either side (2.0, -1.0),
\* where the pointer gets once the view is panned or zoomed
Coords == {-Q, Half, Q, 2 * Q}

\* int(c * N) + 1
CellIndex(c) == AsInt(c * N) + 1

\* the row or column an index i selects in an array of N + 2 rows:
\* negative indexes count from the end; -1 stands for IndexError
Wrapped(i) ==
    IF i >= N + 2 \/ i < -(N + 2) THEN -1
    ELSE IF i < 0 THEN i + N + 2 ELSE i

\* if not 0 < i < N+1 and not 0 < j < N+1: return
OutOfRange(i, j) == ~(0 < i /\ i < N + 1) /\ ~(0 < j /\ j < N + 1)

\* user_step(d, u, v) with the mouse as ms: the three arrays, the mouse and
\* the outcome when it is left
UserStepResult(ms) ==
    LET zeroed == [dens_prev |-> Zero, u_prev |-> Zero, v_prev |-> Zero]
        i == CellIndex(ms.y)
        j == CellIndex(ms.x)
        q == <<Wrapped(i), Wrapped(j)>>
        moved == [ms EXCEPT !.ox = ms.x, !.oy = ms.y]
    IN  IF ms.button \notin {1, 3} THEN [mem |-> zeroed, mouse |-> ms, outcome |-> "returned"]
        ELSE IF OutOfRange(i, j) THEN [mem |-> zeroed, mouse |-> ms, outcome |-> "returned"]
        ELSE IF q[1] = -1 \/ q[2] = -1
        THEN [mem |-> zeroed, mouse |-> ms, outcome |-> "IndexError"]
        ELSE IF ms.button = 1
        THEN [mem |-> [zeroed EXCEPT !.u_prev[q] = Force * (ms.x - ms.ox) * 100,
                                     !.v_prev[q] = Force * (ms.oy - ms.y) * 100],
              mouse |-> moved, outcome |-> "returned"]
        ELSE [mem |-> [zeroed EXCEPT !.dens_prev[q] = Source * Q],
              mouse |-> moved, outcome |-> "returned"]

\* the arrays are zero and no button is held when the animation starts
InitUser ==
    /\ mem = [dens_prev |-> Zero, u_prev |-> Zero, v_prev |-> Zero]
    /\ par = [ox |-> 0, oy |-> 0, x |-> 0, y |-> 0, button |-> NoButton]
    /\ mem0 = NoLocals
    /\ loc = NoLocals
    /\ pc = "idle"
    /\ k = 0
    /\ tmp = "none"
    /\ frame = 0
    /\ log = NoCall

on_button_press ==
    /\ pc = "idle"
    /\ \E x \in Coords, y \in Coords, b \in Buttons :
        par' = [ox |-> x, oy |-> y, x |-> x, y |-> y, button |-> b]
    /\ UNCHANGED <<mem, mem0, loc, pc, k, tmp, frame, log>>

on_button_release ==
    /\ pc = "idle"
    /\ \E x \in Coords, y \in Coords :
        par' = [ox |-> x, oy |-> y, x |-> x, y |-> y, button |-> NoButton]
    /\ UNCHANGED <<mem, mem0, loc, pc, k, tmp, frame, log>>

on_motion ==
    /\ pc = "idle"
    /\ \E x \in Coords, y \in Coords : par' = [par EXCEPT !.x = x, !.y = y]
    /\ UNCHANGED <<mem, mem0, loc, pc, k, tmp, frame, log>>

\* update, line 68: user_step(dens_prev, u_prev, v_prev); until update
\* returns, mem0 keeps the mouse as user_step found it and tmp the outcome
UpdateUserStep ==
    /\ pc = "idle"
    /\ LET r == UserStepResult(par)
       IN  /\ mem' = r.mem
           /\ par' = r.mouse
           /\ tmp' = r.outcome
    /\ mem0' = par
    /\ pc' = "user_stepped"
    /\ UNCHANGED <<loc, k, frame, log>>

\* update, lines 69-71: vel_step and dens_step use the three arrays as
\* scratch space and leave a pressure, a divergence and a density in them,
\* here any of the scratch contents; an exception in user_step ends update
UpdateSteps ==
    /\ pc = "user_stepped"
    /\ IF tmp = "returned"
       THEN \E g \in ScratchGrids : mem' = [dens_prev |-> g, u_prev |-> g, v_prev |-> g]
       ELSE mem' = mem
    /\ mem0' = NoLocals
    /\ tmp' = "none"
    /\ pc' = "idle"
    /\ UNCHANGED <<loc, par, k, frame, log>>

NextUser ==
    on_button_press \/ on_button_release \/ on_motion \/ UpdateUserStep \/ UpdateSteps

SpecUser == InitUser /\ [][NextUser]_vars

\* C29: user_step zeroes the three source arrays and then writes at an
\* interior cell only: when no button 1 or 3 is held, or the index i or the
\* index j it computes is outside 1..N, it returns with the three arrays
\* zero; no ghost cell of the arrays is ever written a value, and no index
\* error occurs.
C29_InteriorWritesOnly ==
    pc = "user_stepped" =>
        LET i == CellIndex(mem0.y)
            j == CellIndex(mem0.x)
        IN  /\ tmp = "returned"
            /\ (mem0.button \notin {1, 3} \/ i \notin 1..N \/ j \notin 1..N) =>
                  \A a \in DOMAIN mem : mem[a] = Zero
            /\ \A a \in DOMAIN mem : \A q \in Ghosts : mem[a][q] = 0

====
